---- MODULE Spec2Model ----
(***************************************************************************)
(* Synchronisation core of the "Our Health" log: the merge law of          *)
(* lib/models.ts, the conditional-write protocol of lib/drive.ts and       *)
(* lib/storage.ts, and the commit handler updateLog of App.tsx.            *)
(*                                                                         *)
(* Values.  An ISO timestamp string is an integer: n >= 0 is a valid ISO   *)
(* string of epoch millisecond n, Missing is undefined / null / a value    *)
(* that is not a string, EmptyStr is '', BadStr is a string Date cannot    *)
(* parse.  Epoch values (the results of getTime()) are integers with NaN    *)
(* for Number.NaN.  An entity id is a positive integer, NoId is a missing  *)
(* or non-string id.                                                       *)
(***************************************************************************)
EXTENDS Integers, Sequences, FiniteSets, TLC

Missing == 0 - 1
EmptyStr == 0 - 2
BadStr == 0 - 3
NaN == 0 - 9
NoId == 0

\* ------------------------------------------------------------------ bounds
MaxTime == 2
MaxIds == 3
MaxTasks == 2
MaxTabTasks == 3
MaxLoads == 1
MaxReloads == 1
MaxLeft == 2
MaxRight == 2
MaxMergeId == 2
MaxMergeTime == 2
MaxRawLeft == 2
MaxRawRight == 1
MaxCatalog == 2
MaxDrugs == 2
MaxWide == 1
MaxRawEpisodes == 2
MaxRawEntries == 1
MaxMember == 2
MaxIntervalTenths == 60
MaxDurationTenths == 25
MaxSeverityTenths == 60
MaxRawSeverities == 2

MEMBER_SLOTS == 4

Sessions == {"X", "Y"}
CollNames == {"episodes", "temps", "meds", "symptoms", "medCatalog"}

\* ------------------------------------------------------- sequence helpers
Range(s) == {s[i] : i \in 1..Len(s)}
IdsOf(s) == {s[i].id : i \in 1..Len(s)}
CountId(s, id) == Cardinality({i \in 1..Len(s) : s[i].id = id})
MapSeq(s, F(_)) == [i \in 1..Len(s) |-> F(s[i])]

\* ------------------------------------------------------------ JavaScript
\* value ? ... : ... on a string-or-null: '' , null and undefined are falsy.
TruthyStr(v) == v # Missing /\ v # EmptyStr
MutAlwaysTruthy(n) == TRUE

\* a number as a condition: 0 and NaN are falsy.
TruthyNum(n) == n # 0 /\ n # NaN
\* a >= b on numbers: false as soon as one side is NaN.
Geq(a, b) == a # NaN /\ b # NaN /\ a >= b
\* new Date(value).getTime()
GetTime(v) == IF v = BadStr THEN NaN ELSE v
\* asString(value, fallback)
MutAsStringFallback(v, fallback) == fallback

asString(v, fallback) == IF v # Missing THEN v ELSE fallback

\* ------------------------------------------------------------------ names
\* A medication name is an integer: 0 is '', 1 a string of whitespace only,
\* and for a drug k >= 1: 4k its lower-case name, 4k + 2 the name with capital
\* letters, and each plus 1 the same with surrounding whitespace.
EmptyName == 0
BlankName == 1
LowerName(k) == 4 * k
\* 'Medication', the name normalizeMedCatalogItem falls back to.
MedicationName == 4 * 9 + 2

\* String.prototype.trim
MutTrimNothing(n) == n

Trim(n) == n - (n % 2)
\* String.prototype.toLowerCase
ToLowerCase(n) == IF (n \div 2) % 2 = 1 THEN n - 2 ELSE n

\* ------------------------------------------------------------ mergeById
MutUpdatedAtIgnored(v) == 0

updatedAtValue(v) == IF TruthyStr(v) THEN GetTime(v) ELSE 0

MutDeletedAtIgnored(v) == 0

deletedAtValue(v) == IF TruthyStr(v) THEN GetTime(v) ELSE 0

\* item.deletedAtISO of a record type that has no such field is undefined.
DeletedOf(item) == IF "deletedAtISO" \in DOMAIN item THEN item.deletedAtISO ELSE Missing

\* Map.prototype.set on an insertion-ordered map held as a sequence.
MapSet(map, item) ==
  IF \E i \in 1..Len(map) : map[i].id = item.id
  THEN [i \in 1..Len(map) |-> IF map[i].id = item.id THEN item ELSE map[i]]
  ELSE Append(map, item)

MapHas(map, id) == \E i \in 1..Len(map) : map[i].id = id
MapGet(map, id) == map[CHOOSE i \in 1..Len(map) : map[i].id = id]

\* The body of left.forEach once an entry for item.id exists: the winner.
MutDeletedWins(item, existing) ==
  IF DeletedOf(item) # Missing THEN item ELSE existing

PickWinner(item, existing) ==
  LET leftUpdated == updatedAtValue(item.updatedAtISO)
      rightUpdated == updatedAtValue(existing.updatedAtISO)
      leftDeleted == deletedAtValue(DeletedOf(item))
      rightDeleted == deletedAtValue(DeletedOf(existing))
  IN IF (TruthyNum(leftDeleted) \/ TruthyNum(rightDeleted))
        /\ TruthyNum(leftDeleted) /\ TruthyNum(rightDeleted)
     THEN IF Geq(leftDeleted, rightDeleted) THEN item ELSE existing
     ELSE IF TruthyNum(leftDeleted) /\ Geq(leftDeleted, rightUpdated)
     THEN item
     ELSE IF TruthyNum(rightDeleted) /\ Geq(rightDeleted, leftUpdated)
     THEN existing
     ELSE IF Geq(leftUpdated, rightUpdated) THEN item ELSE existing

RECURSIVE SetAll(_, _)
\* right.forEach((item) => map.set(item.id, item))
SetAll(map, items) ==
  IF items = <<>> THEN map ELSE SetAll(MapSet(map, Head(items)), Tail(items))

RECURSIVE MergeAll(_, _)
\* left.forEach((item) => { ... })
MergeAll(map, items) ==
  IF items = <<>> THEN map
  ELSE LET item == Head(items)
       IN IF ~MapHas(map, item.id)
          THEN MergeAll(Append(map, item), Tail(items))
          ELSE MergeAll(MapSet(map, PickWinner(item, MapGet(map, item.id))), Tail(items))

MutMergeConcat(left, right) == right \o left

mergeById(left, right) == MergeAll(SetAll(<<>>, right), left)

\* --------------------------------------------------------------- documents
SCHEMA_VERSION == 1

\* createId(): a uuid, distinct from every id in use and from every other
\* uuid; the k-th uuid drawn while normalizing collection number c.
Uuid(c, k) == 100 + 10 * c + k

CollIndex(c) ==
  CASE c = "episodes" -> 1 [] c = "temps" -> 2 [] c = "meds" -> 3
    [] c = "symptoms" -> 4 [] c = "medCatalog" -> 5

\* emptyLog()
emptyLog(now) ==
  [schemaVersion |-> SCHEMA_VERSION, lastUpdatedAtISO |-> now,
   episodes |-> <<>>, temps |-> <<>>, meds |-> <<>>, symptoms |-> <<>>,
   medCatalog |-> <<>>]

\* fallbackISO || nowISO()
MutFallbackNow(fallbackISO, now) == now

FallbackOr(fallbackISO, now) == IF TruthyStr(fallbackISO) THEN fallbackISO ELSE now

\* A member id `member-${n}` is the integer n; 'member-1' is the fallback of
\* the entries.
MEMBER_1 == 1

\* value.memberId of an object that has no such property is undefined.
MemberOf(value) == IF "memberId" \in DOMAIN value THEN value.memberId ELSE Missing
\* typeof value.episodeId === 'string' ? value.episodeId : null; null is NoId.
EpisodeOf(value) == IF "episodeId" \in DOMAIN value THEN value.episodeId ELSE NoId

\* normalizeEpisode: id, owner, the two timestamps, the tombstone; rev stands
\* for the rest of the entity's content.
normalizeEpisode(value, fallbackISO, nowT, uuid) ==
  LET now == FallbackOr(fallbackISO, nowT)
      createdAtISO == asString(value.createdAtISO, asString(value.updatedAtISO, now))
      updatedAtISO == asString(value.updatedAtISO, createdAtISO)
  IN [id |-> IF value.id # NoId THEN value.id ELSE uuid,
      rev |-> value.rev,
      memberId |-> asString(MemberOf(value), EmptyStr),
      createdAtISO |-> createdAtISO,
      updatedAtISO |-> updatedAtISO,
      deletedAtISO |-> value.deletedAtISO]

\* new Map(episodes.map((episode) => [episode.id, episode.memberId])): of two
\* episodes with one id the later one sets the entry.
EpisodeMapHas(episodes, id) == \E i \in 1..Len(episodes) : episodes[i].id = id
EpisodeMapGet(episodes, id) ==
  episodes[CHOOSE i \in 1..Len(episodes) :
             /\ episodes[i].id = id
             /\ \A j \in 1..Len(episodes) : episodes[j].id = id => j <= i].memberId

\* episodeId ? episodeMap.get(episodeId) : undefined
MutNoMemberFallback(episodeId, episodeMap) == Missing

MemberFallback(episodeId, episodeMap) ==
  IF episodeId # NoId /\ EpisodeMapHas(episodeMap, episodeId)
  THEN EpisodeMapGet(episodeMap, episodeId)
  ELSE Missing

\* memberFallback ?? 'member-1'
OrMember1(memberFallback) == IF memberFallback # Missing THEN memberFallback ELSE MEMBER_1

\* normalizeTemp, normalizeMedEntry and normalizeSymptomEntry, which treat
\* these fields alike.
MutNormalizeTempUnlinks(value, episodeMap, fallbackISO, nowT, uuid) ==
  LET now == FallbackOr(fallbackISO, nowT)
      episodeId == EpisodeOf(value)
      memberFallback == MemberFallback(episodeId, episodeMap)
      createdAtISO == asString(value.createdAtISO, asString(value.updatedAtISO, now))
      updatedAtISO == asString(value.updatedAtISO, createdAtISO)
      active == \E i \in 1..Len(episodeMap) :
                  episodeMap[i].id = episodeId /\ ~TruthyStr(episodeMap[i].deletedAtISO)
  IN [id |-> IF value.id # NoId THEN value.id ELSE uuid,
      rev |-> value.rev,
      memberId |-> asString(MemberOf(value), OrMember1(memberFallback)),
      episodeId |-> IF active THEN episodeId ELSE NoId,
      createdAtISO |-> createdAtISO,
      updatedAtISO |-> updatedAtISO,
      deletedAtISO |-> value.deletedAtISO]

normalizeTemp(value, episodeMap, fallbackISO, nowT, uuid) ==
  LET now == FallbackOr(fallbackISO, nowT)
      episodeId == EpisodeOf(value)
      memberFallback == MemberFallback(episodeId, episodeMap)
      createdAtISO == asString(value.createdAtISO, asString(value.updatedAtISO, now))
      updatedAtISO == asString(value.updatedAtISO, createdAtISO)
  IN [id |-> IF value.id # NoId THEN value.id ELSE uuid,
      rev |-> value.rev,
      memberId |-> asString(MemberOf(value), OrMember1(memberFallback)),
      episodeId |-> episodeId,
      createdAtISO |-> createdAtISO,
      updatedAtISO |-> updatedAtISO,
      deletedAtISO |-> value.deletedAtISO]

\* value.name of a record type that has no such field is undefined.
NameOf(value) == IF "name" \in DOMAIN value THEN value.name ELSE Missing
\* asBoolean(value.isFavorite, false)
FavoriteOf(value) == IF "isFavorite" \in DOMAIN value THEN value.isFavorite ELSE FALSE

\* normalizeMedCatalogItem: the result carries no deletedAtISO.
normalizeMedCatalogItem(value, fallbackISO, nowT, uuid) ==
  LET now == FallbackOr(fallbackISO, nowT)
      createdAtISO == asString(value.createdAtISO, asString(value.updatedAtISO, now))
      updatedAtISO == asString(value.updatedAtISO, createdAtISO)
  IN [id |-> IF value.id # NoId THEN value.id ELSE uuid,
      rev |-> value.rev,
      name |-> asString(NameOf(value), MedicationName),
      isFavorite |-> FavoriteOf(value),
      createdAtISO |-> createdAtISO,
      updatedAtISO |-> updatedAtISO]

\* asArray(data[c]): a property that is missing, or not an array, gives [].
asArray(data, c) == IF c \in DOMAIN data THEN data[c] ELSE <<>>
\* data.lastUpdatedAtISO of an object that has no such property is undefined.
LastUpdatedOf(data) ==
  IF "lastUpdatedAtISO" \in DOMAIN data THEN data.lastUpdatedAtISO ELSE Missing

\* ensureLogData on a decoded object whose arrays hold objects.
ensureLogData(value, nowT) ==
  LET logUpdatedAtISO == asString(LastUpdatedOf(value), nowT)
      episodes == [i \in 1..Len(asArray(value, "episodes")) |->
                     normalizeEpisode(asArray(value, "episodes")[i], logUpdatedAtISO, nowT,
                                      Uuid(CollIndex("episodes"), i))]
      Norm(c) == [i \in 1..Len(asArray(value, c)) |->
                    normalizeTemp(asArray(value, c)[i], episodes, logUpdatedAtISO, nowT,
                                  Uuid(CollIndex(c), i))]
  IN [schemaVersion |-> SCHEMA_VERSION,
      lastUpdatedAtISO |-> logUpdatedAtISO,
      episodes |-> episodes,
      temps |-> Norm("temps"),
      meds |-> Norm("meds"),
      symptoms |-> Norm("symptoms"),
      medCatalog |-> [i \in 1..Len(asArray(value, "medCatalog")) |->
                        normalizeMedCatalogItem(asArray(value, "medCatalog")[i],
                                                logUpdatedAtISO, nowT,
                                                Uuid(CollIndex("medCatalog"), i))]]

\* mergeLogData(local, remote) reads remote.episodes ... remote.medCatalog and
\* mergeById calls right.forEach: a TypeError when one of them is undefined.
MergeRaises(remote) == \E c \in {"episodes", "temps", "meds", "symptoms", "medCatalog"} :
                         c \notin DOMAIN remote

MutMergeLogLocalWins(local, remote, now) == [local EXCEPT !.lastUpdatedAtISO = now]

\* mergeLogData(local, remote); now is the value nowISO() returns.
mergeLogData(local, remote, now) ==
  [schemaVersion |-> SCHEMA_VERSION,
   lastUpdatedAtISO |-> now,
   episodes |-> mergeById(local.episodes, remote.episodes),
   temps |-> mergeById(local.temps, remote.temps),
   meds |-> mergeById(local.meds, remote.meds),
   symptoms |-> mergeById(local.symptoms, remote.symptoms),
   medCatalog |-> mergeById(local.medCatalog, remote.medCatalog)]

\* ---------------------------------------------------------------- household
\* A member id `member-${n}` is the integer n, a name `Member ${n}` the
\* integer n, an accent colour its index in the palette.
PALETTE_LENGTH == 7
defaultAccent(index) == index % PALETTE_LENGTH

EmptyObject == [id |-> NoId, name |-> Missing, accentColor |-> Missing,
                createdAtISO |-> Missing, updatedAtISO |-> Missing]

\* normalizeMember(value, index, fallbackISO); index counts from 0.
normalizeMember(value, index, fallbackISO, nowT) ==
  LET now == FallbackOr(fallbackISO, nowT)
      createdAtISO == asString(value.createdAtISO, asString(value.updatedAtISO, now))
      updatedAtISO == asString(value.updatedAtISO, createdAtISO)
  IN [id |-> IF value.id # NoId THEN value.id ELSE index + 1,
      name |-> asString(value.name, index + 1),
      accentColor |-> asString(value.accentColor, defaultAccent(index)),
      createdAtISO |-> createdAtISO,
      updatedAtISO |-> updatedAtISO]

\* membersRaw[index] ?? {}
AtOr(seq, index, other) == IF index + 1 <= Len(seq) THEN seq[index + 1] ELSE other

MutEnsureHouseholdAsIs(value, nowT) ==
  [schemaVersion |-> SCHEMA_VERSION,
   lastUpdatedAtISO |-> asString(value.lastUpdatedAtISO, nowT),
   members |-> [i \in 1..Len(value.members) |->
                  normalizeMember(value.members[i], i - 1, nowT, nowT)]]

\* ensureHousehold on a decoded object whose members is an array of objects.
ensureHousehold(value, nowT) ==
  LET householdUpdatedAtISO == asString(value.lastUpdatedAtISO, nowT)
  IN [schemaVersion |-> SCHEMA_VERSION,
      lastUpdatedAtISO |-> householdUpdatedAtISO,
      members |-> [i \in 1..MEMBER_SLOTS |->
                     normalizeMember(AtOr(value.members, i - 1, EmptyObject), i - 1,
                                     householdUpdatedAtISO, nowT)]]

MutMergeHouseholdFirst(local, remote, now) ==
  [schemaVersion |-> SCHEMA_VERSION, lastUpdatedAtISO |-> now,
   members |-> [i \in 1..MEMBER_SLOTS |-> normalizeMember(local.members[1], i - 1, now, now)]]

\* mergeHousehold(local, remote)
mergeHousehold(local, remote, now) ==
  LET mergedMembers == mergeById(local.members, remote.members)
  IN [schemaVersion |-> SCHEMA_VERSION,
      lastUpdatedAtISO |-> now,
      members |-> [i \in 1..MEMBER_SLOTS |->
                     normalizeMember(
                       AtOr(mergedMembers, i - 1, AtOr(mergedMembers, 0, EmptyObject)),
                       i - 1, now, now)]]

\* emptyHousehold()
emptyHousehold(now) ==
  [schemaVersion |-> SCHEMA_VERSION, lastUpdatedAtISO |-> now,
   members |-> [i \in 1..MEMBER_SLOTS |->
                  [id |-> i, name |-> i, accentColor |-> defaultAccent(i - 1),
                   createdAtISO |-> now, updatedAtISO |-> now]]]

\* ----------------------------------------------------------------- state
VARIABLES
  remote,      \* the shared Drive file: its current etag and its JSON content
  issuesEtag,  \* whether the files resource the store returns carries an etag
  logState,    \* per session: App's logState (DriveFileState<LogData> | null)
  householdState, \* per session: App's householdState
  busy,        \* per session: drive.busy
  clock,       \* per session: the device clock nowISO() reads
  loads,       \* per session: the loadLogFromDrive call in progress
  tasks,       \* the updateLog calls, in flight and finished
  left,        \* the first argument of the merge function under test
  right,       \* its second argument
  result       \* the function applied, the documents it was given and returned

vars == <<remote, issuesEtag, logState, householdState, busy, clock, loads, tasks, left, right, result>>

NoEtag == 0       \* meta.etag of a response without the field (undefined)
NoHeader == 0 - 1 \* a PATCH that carries no If-Match header

MaxSlots == IF MaxTasks > MaxTabTasks THEN MaxTasks ELSE MaxTabTasks
TaskIds == 1..MaxSlots
\* createEpisode, addTempEntry, addMedEntry and addSymptomEntry share one
\* updater shape; the model runs it on one of the collections.
AddColls == {"temps"}

NoResult == [fn |-> "none", in |-> <<>>, out |-> <<>>, old |-> <<>>, swap |-> <<>>,
             shape |-> "none", raised |-> FALSE, again |-> <<>>,
             name |-> EmptyName, returns |-> "none", item |-> <<>>, commits |-> FALSE,
             stamp |-> Missing, now |-> 0]

NoState == [loaded |-> FALSE, etag |-> NoEtag, data |-> emptyLog(1)]
NoHousehold == [loaded |-> FALSE, etag |-> NoEtag, data |-> emptyHousehold(1)]

IdleTask ==
  [pc |-> "idle", sess |-> "X", op |-> "none", coll |-> "none", id |-> NoId,
   capt |-> NoState, body |-> emptyLog(1), ifMatch |-> NoHeader,
   latestEtag |-> NoEtag, respEtag |-> NoEtag, reads |-> 0, writes |-> 0,
   retryEtag |-> NoEtag, merged |-> FALSE, chained |-> FALSE, seen |-> NoEtag,
   message |-> "none", name |-> EmptyName]

InFlightPcs == {"readMeta", "readData", "write1", "write1ok", "reReadMeta",
                "reReadData", "write2", "write2ok"}

InFlight(t) == tasks[t].pc \in InFlightPcs
Finished(t) == tasks[t].pc \in {"done", "failed"}

\* What is kept of a call once it has returned: its outcome, and the closure's
\* logState while the handler that made the call may still use it.
Closed(task, pc, merged) ==
  LET chainable == task.op = "upsert" /\ ~task.chained
  IN [task EXCEPT !.pc = pc, !.merged = merged, !.body = emptyLog(1),
                  !.ifMatch = NoHeader, !.retryEtag = NoEtag, !.latestEtag = NoEtag,
                  !.capt = IF chainable THEN @ ELSE [@ EXCEPT !.data = emptyLog(1)]]

\* The ids in use anywhere: createId() returns none of them.
DocIds(d) == UNION {IdsOf(asArray(d, c)) : c \in CollNames}
UsedIds ==
  DocIds(remote.data)
    \cup UNION {DocIds(logState[s].data) : s \in Sessions}
    \cup UNION {DocIds(tasks[t].body) \cup DocIds(tasks[t].capt.data) : t \in TaskIds}

FreshIds == {i \in 1..MaxIds : i \notin UsedIds /\ \A j \in 1..(i - 1) : j \in UsedIds}
\* The record of the next call, while fewer than limit calls were made.
FreeSlots(limit) ==
  {t \in 1..limit : tasks[t].pc = "idle" /\ \A u \in 1..(t - 1) : tasks[u].pc # "idle"}

\* meta.etag as the store's response carries it.
MetaEtag(e) == IF issuesEtag THEN e ELSE NoEtag

\* toState(meta, data)
toState(etag, data) == [loaded |-> TRUE, etag |-> etag, data |-> data]

\* The files the user can pick at start: a fresh log, or one with an entry.
SeedEntry == [id |-> 1, rev |-> "X", memberId |-> MEMBER_1, episodeId |-> NoId,
              createdAtISO |-> 1, updatedAtISO |-> 1, deletedAtISO |-> Missing]
SeedDocs == {emptyLog(1), [emptyLog(1) EXCEPT !.temps = <<SeedEntry>>]}

\* No session has loaded the file and no call was made.
InitLocal ==
  /\ logState = [s \in Sessions |-> NoState]
  /\ householdState = [s \in Sessions |-> NoHousehold]
  /\ busy = [s \in Sessions |-> FALSE]
  /\ clock = [s \in Sessions |-> 1]
  /\ loads = [s \in Sessions |-> [pc |-> "none", etag |-> NoEtag, n |-> 0]]
  /\ tasks = [t \in TaskIds |-> IdleTask]
  /\ left = <<>>
  /\ right = <<>>
  /\ result = NoResult

InitCommon ==
  /\ remote \in {[etag |-> 1, data |-> d] : d \in SeedDocs}
  /\ InitLocal

Init == InitCommon /\ issuesEtag = TRUE

InitAnyToken == InitCommon /\ issuesEtag \in BOOLEAN

\* ------------------------------------------------------------------ clock
\* nowISO(): the device clock never runs backwards; it has advanced by any
\* amount, or not at all (same millisecond), since the session last read it.
Times(s) == clock[s]..MaxTime
ReadClock(s, now) == clock' = [clock EXCEPT ![s] = now]

\* ------------------------------------------------------- loadLogFromDrive
\* readDriveJson: the metadata request is served first.
LoadMeta(s) ==
  /\ loads[s].pc = "none"
  /\ loads[s].n < MaxLoads
  /\ loads' = [loads EXCEPT ![s] = [pc |-> "data", etag |-> MetaEtag(remote.etag), n |-> @.n + 1]]
  /\ busy' = [busy EXCEPT ![s] = TRUE]
  /\ UNCHANGED <<householdState, left, right, result, remote, issuesEtag, logState, clock, tasks>>

\* readDriveJson: the content request is served; setLogState(log).
LoadData(s) ==
  /\ loads[s].pc = "data"
  /\ logState' = [logState EXCEPT
       ![s] = toState(loads[s].etag, ensureLogData(remote.data, clock[s]))]
  /\ loads' = [loads EXCEPT ![s].pc = "none"]
  /\ busy' = [busy EXCEPT ![s] = FALSE]
  /\ UNCHANGED <<householdState, left, right, result, remote, issuesEtag, clock, tasks>>

\* A request of the load raises: logState keeps its value.
LoadFail(s) ==
  /\ loads[s].pc = "data"
  /\ loads' = [loads EXCEPT ![s].pc = "none"]
  /\ busy' = [busy EXCEPT ![s] = FALSE]
  /\ UNCHANGED <<householdState, left, right, result, remote, issuesEtag, logState, clock, tasks>>

\* ---------------------------------------------------------------- updaters
\* The entity addTempEntry / addMedEntry builds: a fresh id, the member of the
\* page, no episode, both timestamps now, no deletedAtISO field.
NewEntry(id, s, now) ==
  [id |-> id, rev |-> s, memberId |-> MEMBER_1, episodeId |-> NoId,
   createdAtISO |-> now, updatedAtISO |-> now, deletedAtISO |-> Missing]

\* (current) => ({ ...current, coll: mergeById([entry], current.coll) })
AddUpdater(c, id, s, now, current) ==
  [current EXCEPT ![c] = mergeById(<<NewEntry(id, s, now)>>, current[c])]

\* upsertCatalogItem(name) on the catalog of the render that called it: null
\* for a blank name, the item found by its lower-case name, or a new item.
\* found is 0 when no item matches, else the index of the first that does.
upsertCatalogItem(catalog, name, id, s, now) ==
  LET trimmed == Trim(name)
      matches == {i \in 1..Len(catalog) :
                    ToLowerCase(catalog[i].name) = ToLowerCase(trimmed)}
      found == IF matches = {} THEN 0
               ELSE CHOOSE i \in matches : \A j \in matches : i <= j
      created == [id |-> id, rev |-> s, name |-> trimmed, isFavorite |-> FALSE,
                  createdAtISO |-> now, updatedAtISO |-> now]
  IN IF trimmed = EmptyName THEN [returns |-> "null", item |-> created, commits |-> FALSE]
     ELSE IF found # 0 THEN [returns |-> "existing", item |-> catalog[found], commits |-> FALSE]
     ELSE [returns |-> "created", item |-> created, commits |-> TRUE]

\* (current) => ({ ...current, medCatalog: mergeById([created], current.medCatalog) })
UpsertUpdater(id, s, now, name, current) ==
  [current EXCEPT !.medCatalog =
     mergeById(<<upsertCatalogItem(<<>>, name, id, s, now).item>>, current.medCatalog)]

\* updateTempEntry: { ...entry, ...updates, updatedAtISO: now } for the id.
EditUpdater(c, id, s, now, current) ==
  [current EXCEPT ![c] =
     [i \in 1..Len(current[c]) |->
        IF current[c][i].id = id
        THEN [current[c][i] EXCEPT !.rev = s, !.updatedAtISO = now]
        ELSE current[c][i]]]

\* deleteTempEntry: { ...entry, deletedAtISO: now, updatedAtISO: now }.
DeleteUpdater(c, id, s, now, current) ==
  [current EXCEPT ![c] =
     [i \in 1..Len(current[c]) |->
        IF current[c][i].id = id
        THEN [current[c][i] EXCEPT !.deletedAtISO = now, !.updatedAtISO = now]
        ELSE current[c][i]]]

\* deleteEpisode: the episode gets its tombstone; the temps, meds and symptoms
\* that reference it get episodeId: null and updatedAtISO: now.
DeleteEpisodeUpdater(episodeId, now, current) ==
  LET Unlink(coll) ==
        [i \in 1..Len(coll) |->
           IF coll[i].episodeId = episodeId
           THEN [coll[i] EXCEPT !.episodeId = NoId, !.updatedAtISO = now]
           ELSE coll[i]]
  IN [current EXCEPT
        !.episodes = [i \in 1..Len(current.episodes) |->
                        IF current.episodes[i].id = episodeId
                        THEN [current.episodes[i] EXCEPT !.deletedAtISO = now,
                                                         !.updatedAtISO = now]
                        ELSE current.episodes[i]],
        !.temps = Unlink(current.temps),
        !.meds = Unlink(current.meds),
        !.symptoms = Unlink(current.symptoms)]

Updater(op, c, id, s, now, name, current) ==
  CASE op = "add" -> AddUpdater(c, id, s, now, current)
    [] op = "deleteEpisode" -> DeleteEpisodeUpdater(id, now, current)
    [] op = "upsert" -> UpsertUpdater(id, s, now, name, current)
    [] op = "edit" -> EditUpdater(c, id, s, now, current)
    [] op = "delete" -> DeleteUpdater(c, id, s, now, current)

\* The entries of a collection the UI lists: those without a tombstone.
ActiveIds(coll) == {coll[i].id : i \in {j \in 1..Len(coll) : ~TruthyStr(coll[j].deletedAtISO)}}

\* ---------------------------------------------------------------- updateLog
\* updateLog up to its first await: the closure's logState is capt.  The
\* optimistic setLogState((prev) => prev ? { ...prev, data: next } : prev)
\* acts on the session's current state; saveLogToDrive then issues the
\* metadata request of its readDriveJson.
OptimisticSet(s, capt, next) ==
  [logState EXCEPT ![s] = IF @.loaded THEN [@ EXCEPT !.data = next] ELSE @]

StartUpdate(t, s, capt, op, c, id, now, name) ==
  LET currentData == ensureLogData(capt.data, now)
      next == ensureLogData(
                Updater(op, c, id, s, now, name, [currentData EXCEPT !.lastUpdatedAtISO = now]),
                now)
  IN /\ capt.loaded
     /\ busy' = [busy EXCEPT ![s] = TRUE]
     /\ logState' = OptimisticSet(s, capt, next)
     /\ tasks' = [tasks EXCEPT ![t] =
          [IdleTask EXCEPT !.pc = "readMeta", !.sess = s, !.op = op, !.coll = c,
                           !.id = id, !.capt = capt, !.body = next,
                           !.seen = remote.etag, !.name = name]]
     /\ ReadClock(s, now)
     /\ UNCHANGED <<householdState, left, right, result, remote, issuesEtag, loads>>

\* createEpisode, addTempEntry, upsertCatalogItem called from the current render.
AddEntry(s, c, limit) ==
  \E t \in FreeSlots(limit) : \E id \in FreshIds : \E now \in Times(s) :
    StartUpdate(t, s, logState[s], "add", c, id, now, EmptyName)

\* The names typed into the medication form.
TypedNames == {BlankName, LowerName(1), LowerName(1) + 3}

\* upsertCatalogItem called from the current render: a commit is started only
\* for a name that is not blank and not in the render's catalog.
UpsertCatalog(s, name, limit) ==
  \E t \in FreeSlots(limit) : \E id \in FreshIds : \E now \in Times(s) :
    /\ logState[s].loaded
    /\ upsertCatalogItem(logState[s].data.medCatalog, name, id, s, now).commits
    /\ StartUpdate(t, s, logState[s], "upsert", "medCatalog", id, now, name)

\* updateTempEntry called from the current render on a listed entry.
EditEntry(s, id, limit) ==
  \E t \in FreeSlots(limit) : \E now \in Times(s) :
    /\ id \in ActiveIds(logState[s].data.temps)
    /\ StartUpdate(t, s, logState[s], "edit", "temps", id, now, EmptyName)

\* deleteTempEntry called from the current render on a listed entry.
DeleteEntry(s, id, limit) ==
  \E t \in FreeSlots(limit) : \E now \in Times(s) :
    /\ id \in ActiveIds(logState[s].data.temps)
    /\ StartUpdate(t, s, logState[s], "delete", "temps", id, now, EmptyName)

\* deleteEpisode called from the current render on a listed episode.
DeleteEpisode(s, id, limit) ==
  \E t \in FreeSlots(limit) : \E now \in Times(s) :
    /\ id \in ActiveIds(logState[s].data.episodes)
    /\ StartUpdate(t, s, logState[s], "deleteEpisode", "episodes", id, now, EmptyName)

\* createMedCourse called from the current render.  updateLog runs the updater
\* inside its try: ensureLogData returns no medCourses, so current.medCourses
\* is undefined and mergeById([course], undefined) throws at right.forEach
\* before the optimistic setLogState and before any request; the catch shows
\* the message and finally clears busy.
CreateMedCourse(s, limit) ==
  \E t \in FreeSlots(limit) : \E id \in FreshIds : \E now \in Times(s) :
    /\ logState[s].loaded
    /\ "medCourses" \notin DOMAIN ensureLogData(logState[s].data, now)
    /\ tasks' = [tasks EXCEPT ![t] =
         [IdleTask EXCEPT !.pc = "failed", !.sess = s, !.op = "createMedCourse",
                          !.coll = "medCourses", !.id = id, !.message = "TypeError"]]
    /\ busy' = [busy EXCEPT ![s] = FALSE]
    /\ ReadClock(s, now)
    /\ UNCHANGED <<householdState, left, right, result, remote, issuesEtag, logState, loads>>

\* handleMedSubmit: after `await onUpsertCatalog(name)` returned (the commit
\* done or failed, its error swallowed by updateLog), `await onAddMed(...)`
\* runs in the same closure, whose logState is the one the first call saw.
ChainAddMed(s, t0, limit) ==
  \E t \in FreeSlots(limit) : \E id \in FreshIds : \E now \in Times(s) :
    /\ Finished(t0)
    /\ tasks[t0].sess = s
    /\ tasks[t0].op = "upsert"
    /\ ~tasks[t0].chained
    /\ LET capt == tasks[t0].capt
           currentData == ensureLogData(capt.data, now)
           next == ensureLogData(
                     Updater("add", "meds", id, s, now, EmptyName,
                             [currentData EXCEPT !.lastUpdatedAtISO = now]),
                     now)
       IN /\ busy' = [busy EXCEPT ![s] = TRUE]
          /\ logState' = OptimisticSet(s, capt, next)
          /\ tasks' = [tasks EXCEPT
               ![t0] = [@ EXCEPT !.chained = TRUE, !.capt = [@ EXCEPT !.data = emptyLog(1)]],
               ![t] = [IdleTask EXCEPT !.pc = "readMeta", !.sess = s, !.op = "add",
                                       !.coll = "meds", !.id = id, !.capt = capt,
                                       !.body = next, !.seen = remote.etag]]
    /\ ReadClock(s, now)
    /\ UNCHANGED <<householdState, left, right, result, remote, issuesEtag, loads>>

\* ----------------------------------------------------------- saveLogToDrive
\* readDriveJson(state.fileId): the metadata request is served.
ReadMeta(t) ==
  /\ tasks[t].pc = "readMeta"
  /\ tasks' = [tasks EXCEPT ![t].pc = "readData",
                            ![t].latestEtag = MetaEtag(remote.etag),
                            ![t].reads = @ + 1]
  /\ UNCHANGED <<householdState, left, right, result, remote, issuesEtag, logState, busy, clock, loads>>

\* The If-Match header of writeDriveJson's first PATCH: ...(etag ? {...} : {})
FirstIfMatch(etag) == IF etag # NoEtag THEN etag ELSE NoHeader

\* The content request is served; mergedData is computed and writeDriveJson
\* issues its first PATCH.
ReadData(t) ==
  /\ tasks[t].pc = "readData"
  /\ \E now \in Times(tasks[t].sess) :
       LET mergedData == mergeLogData(ensureLogData(tasks[t].body, now),
                                      ensureLogData(remote.data, now), now)
       IN /\ tasks' = [tasks EXCEPT ![t].pc = "write1",
                                    ![t].body = mergedData,
                                    ![t].ifMatch = FirstIfMatch(tasks[t].latestEtag),
                                    ![t].writes = @ + 1]
          /\ ReadClock(tasks[t].sess, now)
  /\ UNCHANGED <<householdState, left, right, result, remote, issuesEtag, logState, busy, loads>>

\* The store's precondition check of a PATCH.
Accepts(ifMatch) == ifMatch = NoHeader \/ ifMatch = remote.etag

\* The store handles the first PATCH: it applies it, or answers 412 and
\* writeDriveJson starts the readDriveJson of its retry.
StoreWrite1(t) ==
  /\ tasks[t].pc = "write1"
  /\ IF Accepts(tasks[t].ifMatch)
     THEN /\ remote' = [etag |-> remote.etag + 1, data |-> tasks[t].body]
          /\ tasks' = [tasks EXCEPT ![t].pc = "write1ok",
                                    ![t].respEtag = MetaEtag(remote.etag + 1)]
     ELSE /\ remote' = remote
          /\ tasks' = [tasks EXCEPT ![t].pc = "reReadMeta"]
  /\ UNCHANGED <<householdState, left, right, result, issuesEtag, logState, busy, clock, loads>>

\* hadRemoteChanges
MutHadRemoteChangesAlways(latestEtag, stateEtag) == TRUE

HadRemoteChanges(latestEtag, stateEtag) == latestEtag # stateEtag

MutMergedFlag(resultMerged, latestEtag, stateEtag) == resultMerged

MergedFlag(resultMerged, latestEtag, stateEtag) ==
  resultMerged \/ HadRemoteChanges(latestEtag, stateEtag)

\* The response of the accepted first PATCH arrives: writeDriveJson returns
\* merged: false, saveLogToDrive returns, updateLog sets logState.
Write1Ok(t) ==
  /\ tasks[t].pc = "write1ok"
  /\ LET s == tasks[t].sess
     IN /\ logState' = [logState EXCEPT
             ![s] = toState(tasks[t].respEtag, ensureLogData(tasks[t].body, clock[s]))]
        /\ busy' = [busy EXCEPT ![s] = FALSE]
        /\ tasks' = [tasks EXCEPT ![t] =
             Closed(@, "done", MergedFlag(FALSE, tasks[t].latestEtag, tasks[t].capt.etag))]
  /\ UNCHANGED <<householdState, left, right, result, remote, issuesEtag, clock, loads>>

\* ------------------------------------------------- writeDriveJson, the retry
ReReadMeta(t) ==
  /\ tasks[t].pc = "reReadMeta"
  /\ tasks' = [tasks EXCEPT ![t].pc = "reReadData",
                            ![t].retryEtag = MetaEtag(remote.etag),
                            ![t].reads = @ + 1]
  /\ UNCHANGED <<householdState, left, right, result, remote, issuesEtag, logState, busy, clock, loads>>

\* merge(nextData, latest.data) on the content as read, then the retry PATCH
\* with 'If-Match': latest.meta.etag.  When the merge throws, updateLog's
\* catch shows the message and its finally clears busy.
MergeRaised(task) ==
  [Closed(task, "failed", FALSE) EXCEPT !.message = "TypeError"]

ReReadData(t) ==
  /\ tasks[t].pc = "reReadData"
  /\ IF MergeRaises(remote.data)
     THEN /\ tasks' = [tasks EXCEPT ![t] = MergeRaised(@)]
          /\ busy' = [busy EXCEPT ![tasks[t].sess] = FALSE]
          /\ clock' = clock
     ELSE /\ \E now \in Times(tasks[t].sess) :
               /\ tasks' = [tasks EXCEPT
                    ![t].pc = "write2",
                    ![t].body = mergeLogData(tasks[t].body, remote.data, now),
                    ![t].ifMatch = tasks[t].retryEtag,
                    ![t].writes = @ + 1]
               /\ ReadClock(tasks[t].sess, now)
          /\ busy' = busy
  /\ UNCHANGED <<householdState, left, right, result, remote, issuesEtag, logState, loads>>

\* The retry's fetchWithAuth allows no 412: it throws Error(response.statusText)
\* and updateLog's catch shows the message.
MutRetryAgain(task) == [task EXCEPT !.pc = "reReadMeta"]

RetryRejected(task) ==
  [Closed(task, "failed", FALSE) EXCEPT !.message = "Precondition Failed"]

\* The store handles the retry PATCH; a 412 is not allowed here, so
\* fetchWithAuth throws and updateLog's catch and finally run.
StoreWrite2(t) ==
  /\ tasks[t].pc = "write2"
  /\ IF Accepts(tasks[t].ifMatch)
     THEN /\ remote' = [etag |-> remote.etag + 1, data |-> tasks[t].body]
          /\ tasks' = [tasks EXCEPT ![t].pc = "write2ok",
                                    ![t].respEtag = MetaEtag(remote.etag + 1)]
          /\ busy' = busy
     ELSE /\ remote' = remote
          /\ tasks' = [tasks EXCEPT ![t] = RetryRejected(@)]
          /\ busy' = [busy EXCEPT ![tasks[t].sess] = FALSE]
  /\ UNCHANGED <<householdState, left, right, result, issuesEtag, logState, clock, loads>>

\* The response of the accepted retry arrives: merged: true.
Write2Ok(t) ==
  /\ tasks[t].pc = "write2ok"
  /\ LET s == tasks[t].sess
     IN /\ logState' = [logState EXCEPT
             ![s] = toState(tasks[t].respEtag, ensureLogData(tasks[t].body, clock[s]))]
        /\ busy' = [busy EXCEPT ![s] = FALSE]
        /\ tasks' = [tasks EXCEPT ![t] =
             Closed(@, "done", MergedFlag(TRUE, tasks[t].latestEtag, tasks[t].capt.etag))]
  /\ UNCHANGED <<householdState, left, right, result, remote, issuesEtag, clock, loads>>

\* A request of the commit raises (offline, an error status other than an
\* allowed 412, a lost response): catch sets the message, finally clears busy.
MutFailKeepsBusy(t) ==
  /\ InFlight(t)
  /\ tasks' = [tasks EXCEPT ![t] = [Closed(@, "failed", FALSE) EXCEPT !.message = "Offline"]]
  /\ UNCHANGED <<householdState, left, right, result, remote, issuesEtag, logState, busy, clock,
                 loads>>

Fail(t) ==
  /\ InFlight(t)
  /\ tasks' = [tasks EXCEPT ![t] = [Closed(@, "failed", FALSE) EXCEPT !.message = "Offline"]]
  /\ busy' = [busy EXCEPT ![tasks[t].sess] = FALSE]
  /\ UNCHANGED <<householdState, left, right, result, remote, issuesEtag, logState, clock, loads>>

\* ------------------------------------------------------------ specification
\* The steps of the calls in flight, whoever made them.
Steps ==
  \/ \E t \in TaskIds : ReadMeta(t)
  \/ \E t \in TaskIds : ReadData(t)
  \/ \E t \in TaskIds : StoreWrite1(t)
  \/ \E t \in TaskIds : Write1Ok(t)
  \/ \E t \in TaskIds : ReReadMeta(t)
  \/ \E t \in TaskIds : ReReadData(t)
  \/ \E t \in TaskIds : StoreWrite2(t)
  \/ \E t \in TaskIds : Write2Ok(t)
  \/ \E t \in TaskIds : Fail(t)

\* What the users of the sessions in S do, with at most limit commits.
Calls(S, limit) ==
  \/ \E s \in S : LoadMeta(s)
  \/ \E s \in S : LoadData(s)
  \/ \E s \in S : LoadFail(s)
  \/ \E s \in S, c \in AddColls : AddEntry(s, c, limit)
  \/ \E s \in S, name \in TypedNames : UpsertCatalog(s, name, limit)
  \/ \E s \in S, id \in 1..MaxIds : EditEntry(s, id, limit)
  \/ \E s \in S, id \in 1..MaxIds : DeleteEntry(s, id, limit)
  \/ \E s \in S, t0 \in TaskIds : ChainAddMed(s, t0, limit)

\* Two devices share the file.
Next == Calls(Sessions, MaxTasks) \/ Steps

Spec == Init /\ [][Next]_vars

\* The same, with a store whose responses may carry no etag.
SpecAnyToken == InitAnyToken /\ [][Next]_vars

\* One tab alone on the file, its user adding entries (handleMedSubmit,
\* handleTempSubmit).
NextOneTab ==
  \/ LoadMeta("X")
  \/ LoadData("X")
  \/ \E c \in AddColls : AddEntry("X", c, MaxTabTasks)
  \/ \E name \in TypedNames : UpsertCatalog("X", name, MaxTabTasks)
  \/ \E t0 \in TaskIds : ChainAddMed("X", t0, MaxTabTasks)
  \/ Steps

SpecOneTab == Init /\ [][NextOneTab]_vars

\* A log with an episode and a temperature entry recorded in it.
SeedEpisode == [id |-> 1, rev |-> "X", memberId |-> MEMBER_1,
                createdAtISO |-> 1, updatedAtISO |-> 1, deletedAtISO |-> Missing]
LinkedTemp == [id |-> 2, rev |-> "X", memberId |-> MEMBER_1, episodeId |-> 1,
               createdAtISO |-> 1, updatedAtISO |-> 1, deletedAtISO |-> Missing]
EpisodeDoc == [emptyLog(1) EXCEPT !.episodes = <<SeedEpisode>>, !.temps = <<LinkedTemp>>]

InitEpisode ==
  /\ remote = [etag |-> 1, data |-> EpisodeDoc]
  /\ issuesEtag = TRUE
  /\ InitLocal

\* Two devices share that log: their users edit the entry and delete the
\* episode.
NextEpisode ==
  \/ \E s \in Sessions : LoadMeta(s)
  \/ \E s \in Sessions : LoadData(s)
  \/ \E s \in Sessions, id \in 1..MaxIds : EditEntry(s, id, MaxTasks)
  \/ \E s \in Sessions, id \in 1..MaxIds : DeleteEpisode(s, id, MaxTasks)
  \/ Steps

SpecEpisode == InitEpisode /\ [][NextEpisode]_vars

\* Two devices share that log: both users delete the entry, one of them the
\* episode as well, in up to MaxTabTasks commits.
NextTombstone ==
  \/ \E s \in Sessions : LoadMeta(s)
  \/ \E s \in Sessions : LoadData(s)
  \/ \E s \in Sessions, id \in 1..MaxIds : DeleteEntry(s, id, MaxTabTasks)
  \/ \E id \in 1..MaxIds : DeleteEpisode("X", id, MaxTabTasks)
  \/ Steps

SpecTombstone == InitEpisode /\ [][NextTombstone]_vars

\* One tab whose user records temperatures and creates medication courses.
NextCourse ==
  \/ LoadMeta("X")
  \/ LoadData("X")
  \/ \E c \in AddColls : AddEntry("X", c, MaxTabTasks)
  \/ CreateMedCourse("X", MaxTabTasks)
  \/ Steps

SpecCourse == Init /\ [][NextCourse]_vars

\* The JSON file {"schemaVersion": 1}: an object without the collections.
BareObject == [schemaVersion |-> SCHEMA_VERSION]

\* Something else than this application (an editor, a restore, another tool
\* with access to the Drive file) replaces the content of the file.
ForeignWrite ==
  /\ remote.data # BareObject
  /\ remote' = [etag |-> remote.etag + 1, data |-> BareObject]
  /\ UNCHANGED <<householdState, left, right, result, issuesEtag, logState, busy, clock, loads, tasks>>

\* One tab on a file that something else writes as well.
NextForeign ==
  \/ LoadMeta("X")
  \/ LoadData("X")
  \/ \E c \in AddColls : AddEntry("X", c, MaxTasks)
  \/ \E id \in 1..MaxIds : EditEntry("X", id, MaxTasks)
  \/ ForeignWrite
  \/ Steps

SpecForeign == Init /\ [][NextForeign]_vars

\* The request a commit is waiting for returns or raises.
Returns(t) ==
  \/ Fail(t)
  \/ ReadMeta(t) \/ ReadData(t)
  \/ StoreWrite1(t) \/ Write1Ok(t)
  \/ ReReadMeta(t) \/ ReReadData(t)
  \/ StoreWrite2(t) \/ Write2Ok(t)

\* handleConnect pressed again in a tab that has loaded the file: the button
\* is disabled while drive.busy; loadStoredFiles reads the file anew.
Reconnect(s) ==
  /\ logState[s].loaded /\ ~busy[s]
  /\ loads[s].pc = "none"
  /\ loads[s].n < MaxLoads + MaxReloads
  /\ loads' = [loads EXCEPT ![s] = [pc |-> "data", etag |-> MetaEtag(remote.etag), n |-> @.n + 1]]
  /\ busy' = [busy EXCEPT ![s] = TRUE]
  /\ UNCHANGED <<householdState, left, right, result, remote, issuesEtag, logState, clock, tasks>>

\* The same tab and file, the user reconnecting as well.
NextReload ==
  \/ LoadMeta("X")
  \/ LoadData("X")
  \/ Reconnect("X")
  \/ \E c \in AddColls : AddEntry("X", c, MaxTasks)
  \/ ForeignWrite
  \/ Steps

\* Every request of a commit returns or raises in the end.
SpecReload == Init /\ [][NextReload]_vars /\ \A t \in TaskIds : WF_vars(Returns(t))

\* ------------------------------------------------------ the household file
\* The Drive file is the household file here: readDriveJson and writeDriveJson
\* are the generic steps above; what follows is what saveHouseholdToDrive and
\* updateHousehold do with a household.
InitHousehold ==
  /\ remote = [etag |-> 1, data |-> emptyHousehold(1)]
  /\ issuesEtag = TRUE
  /\ InitLocal

\* loadHouseholdFromDrive: the content request is served; setHouseholdState.
LoadHouseholdData(s) ==
  /\ loads[s].pc = "data"
  /\ householdState' = [householdState EXCEPT
       ![s] = toState(loads[s].etag, ensureHousehold(remote.data, clock[s]))]
  /\ loads' = [loads EXCEPT ![s].pc = "none"]
  /\ busy' = [busy EXCEPT ![s] = FALSE]
  /\ UNCHANGED <<left, right, result, remote, issuesEtag, logState, clock, tasks>>

\* The name a user types for a member in the settings form: `Renamed by X` is
\* the integer 11, `Renamed by Y` the integer 12.
TypedMemberName(s) == IF s = "X" THEN 11 ELSE 12

\* The draft of the settings form: the members of the render, member j renamed.
Draft(members, j, name) == [members EXCEPT ![j].name = name]

\* nextMembers[index]?.name ?? member.name
DraftOr(nextMembers, i, field, member) ==
  IF i <= Len(nextMembers) THEN nextMembers[i][field] ELSE member[field]

\* handleSaveMembers: every member gets the draft's name and accent colour and
\* updatedAtISO: nowISO(), the members the user did not touch included.
SaveMembersUpdater(nextMembers, now, current) ==
  [current EXCEPT !.members =
     [i \in 1..Len(current.members) |->
        [current.members[i] EXCEPT
           !.name = DraftOr(nextMembers, i, "name", current.members[i]),
           !.accentColor = DraftOr(nextMembers, i, "accentColor", current.members[i]),
           !.updatedAtISO = now]]]

\* updateHousehold up to its first await, called by handleSaveMembers with the
\* draft in which member j was renamed: no optimistic setHouseholdState.
SaveMembers(s, j, limit) ==
  \E t \in FreeSlots(limit) : \E now \in Times(s) :
    LET capt == householdState[s]
        draft == Draft(capt.data.members, j, TypedMemberName(s))
        next == SaveMembersUpdater(draft, now, [capt.data EXCEPT !.lastUpdatedAtISO = now])
    IN /\ capt.loaded
       /\ busy' = [busy EXCEPT ![s] = TRUE]
       /\ tasks' = [tasks EXCEPT ![t] =
            [IdleTask EXCEPT !.pc = "readMeta", !.sess = s, !.op = "saveMembers",
                             !.coll = "members", !.id = j, !.capt = capt, !.body = next,
                             !.seen = remote.etag, !.name = TypedMemberName(s)]]
       /\ ReadClock(s, now)
       /\ UNCHANGED <<householdState, left, right, result, remote, issuesEtag, logState, loads>>

\* saveHouseholdToDrive: the content request of its readDriveJson is served;
\* mergedData is computed and writeDriveJson issues its first PATCH.
HouseholdReadData(t) ==
  /\ tasks[t].pc = "readData"
  /\ tasks[t].op = "saveMembers"
  /\ \E now \in Times(tasks[t].sess) :
       LET mergedData == mergeHousehold(ensureHousehold(tasks[t].body, now),
                                        ensureHousehold(remote.data, now), now)
       IN /\ tasks' = [tasks EXCEPT ![t].pc = "write1",
                                    ![t].body = mergedData,
                                    ![t].ifMatch = FirstIfMatch(tasks[t].latestEtag),
                                    ![t].writes = @ + 1]
          /\ ReadClock(tasks[t].sess, now)
  /\ UNCHANGED <<householdState, left, right, result, remote, issuesEtag, logState, busy, loads>>

\* The result of a returned saveHouseholdToDrive: setHouseholdState(result.state).
HouseholdReturned(t, resultMerged) ==
  LET s == tasks[t].sess
  IN /\ householdState' = [householdState EXCEPT
          ![s] = toState(tasks[t].respEtag, ensureHousehold(tasks[t].body, clock[s]))]
     /\ busy' = [busy EXCEPT ![s] = FALSE]
     /\ tasks' = [tasks EXCEPT ![t] =
          Closed(@, "done", MergedFlag(resultMerged, tasks[t].latestEtag, tasks[t].capt.etag))]
     /\ UNCHANGED <<left, right, result, remote, issuesEtag, logState, clock, loads>>

\* The response of the accepted first PATCH arrives.
HouseholdWrite1Ok(t) ==
  /\ tasks[t].pc = "write1ok"
  /\ tasks[t].op = "saveMembers"
  /\ HouseholdReturned(t, FALSE)

\* writeDriveJson's retry with merge = mergeHousehold on the content as read.
HouseholdReReadData(t) ==
  /\ tasks[t].pc = "reReadData"
  /\ tasks[t].op = "saveMembers"
  /\ \E now \in Times(tasks[t].sess) :
       /\ tasks' = [tasks EXCEPT
            ![t].pc = "write2",
            ![t].body = mergeHousehold(tasks[t].body, remote.data, now),
            ![t].ifMatch = tasks[t].retryEtag,
            ![t].writes = @ + 1]
       /\ ReadClock(tasks[t].sess, now)
  /\ UNCHANGED <<householdState, left, right, result, remote, issuesEtag, logState, busy, loads>>

\* The response of the accepted retry arrives: merged: true.
HouseholdWrite2Ok(t) ==
  /\ tasks[t].pc = "write2ok"
  /\ tasks[t].op = "saveMembers"
  /\ HouseholdReturned(t, TRUE)

\* Two devices share the household file; their users rename members.
NextHousehold ==
  \/ \E s \in Sessions : LoadMeta(s)
  \/ \E s \in Sessions : LoadHouseholdData(s)
  \/ \E s \in Sessions, j \in 1..MaxMember : SaveMembers(s, j, MaxTasks)
  \/ \E t \in TaskIds : ReadMeta(t)
  \/ \E t \in TaskIds : HouseholdReadData(t)
  \/ \E t \in TaskIds : StoreWrite1(t)
  \/ \E t \in TaskIds : HouseholdWrite1Ok(t)
  \/ \E t \in TaskIds : ReReadMeta(t)
  \/ \E t \in TaskIds : HouseholdReReadData(t)
  \/ \E t \in TaskIds : StoreWrite2(t)
  \/ \E t \in TaskIds : HouseholdWrite2Ok(t)
  \/ \E t \in TaskIds : Fail(t)

SpecHousehold == InitHousehold /\ [][NextHousehold]_vars

\* The pure functions are applied apart from any session.
InitMerge == Init /\ remote.data = emptyLog(1)

\* -------------------------------------------------------- the normalizer
\* An object none of whose properties is set; also what the property reads of
\* a number, string or boolean yield.
EmptyEntity ==
  [id |-> NoId, rev |-> "none", createdAtISO |-> Missing, updatedAtISO |-> Missing,
   deletedAtISO |-> Missing]

\* The elements of a decoded JSON array: null, a scalar, or an object with
\* some of its properties missing.
RawElements ==
  {[kind |-> k, obj |-> EmptyEntity] : k \in {"null", "scalar"}}
    \cup {[kind |-> "object", obj |-> o] :
            o \in [id : {NoId} \cup 1..MaxMergeId, rev : {"raw"},
                   createdAtISO : {Missing, 1}, updatedAtISO : {Missing, MaxMergeTime},
                   deletedAtISO : {Missing, 1}]}

\* value.id on null or undefined throws a TypeError.
ReadRaises(elem) == elem.kind = "null"
PropsOf(elem) == IF elem.kind = "object" THEN elem.obj ELSE EmptyEntity
AllProps(items) == [i \in 1..Len(items) |-> PropsOf(items[i])]

\* The decoded JSON documents: undefined, null, a number/string/boolean, an
\* array, an object whose collections are not arrays, an object with arrays.
DocShapes == {"undefined", "null", "scalar", "array", "noArrays", "object"}
IsObject(shape) == shape \in {"array", "noArrays", "object"}

\* ensureLogData(value) of a document of the given shape whose temps and
\* medCatalog are the given arrays: whether it throws, and what it returns.
ensureLogDataOf(shape, stamp, temps, catalog, nowT) ==
  IF ~IsObject(shape) THEN [raised |-> FALSE, doc |-> emptyLog(nowT)]
  ELSE LET ts == IF shape = "object" THEN temps ELSE <<>>
           cs == IF shape = "object" THEN catalog ELSE <<>>
           value == [lastUpdatedAtISO |-> IF shape = "array" THEN Missing ELSE stamp,
                     episodes |-> <<>>, temps |-> AllProps(ts), meds |-> <<>>,
                     symptoms |-> <<>>, medCatalog |-> AllProps(cs)]
       IN IF \E i \in 1..Len(ts) : ReadRaises(ts[i]) THEN [raised |-> TRUE, doc |-> emptyLog(nowT)]
          ELSE IF \E i \in 1..Len(cs) : ReadRaises(cs[i])
          THEN [raised |-> TRUE, doc |-> emptyLog(nowT)]
          ELSE [raised |-> FALSE, doc |-> ensureLogData(value, nowT)]

\* A decoded member object.
RawMember(e) ==
  [id |-> e.id, name |-> Missing, accentColor |-> Missing,
   createdAtISO |-> e.createdAtISO, updatedAtISO |-> e.updatedAtISO]

\* ensureHousehold(value) of a document of the given shape whose members is
\* the given array; membersRaw[index] ?? {} replaces null elements.
ensureHouseholdOf(shape, stamp, members, nowT) ==
  IF ~IsObject(shape) THEN emptyHousehold(nowT)
  ELSE ensureHousehold(
         [lastUpdatedAtISO |-> IF shape = "array" THEN Missing ELSE stamp,
          members |-> IF shape = "object"
                      THEN [i \in 1..Len(members) |-> RawMember(PropsOf(members[i]))]
                      ELSE <<>>], nowT)

PushRawLeft(v) ==
  /\ result.fn = "none" /\ Len(left) < MaxRawLeft
  /\ left' = Append(left, v)
  /\ UNCHANGED <<householdState, remote, issuesEtag, logState, busy, clock, loads, tasks, right, result>>

PushRawRight(v) ==
  /\ result.fn = "none" /\ Len(right) < MaxRawRight
  /\ right' = Append(right, v)
  /\ UNCHANGED <<householdState, remote, issuesEtag, logState, busy, clock, loads, tasks, left, result>>

Stamps == {Missing, EmptyStr, 1}

\* ensureLogData(x), and ensureLogData of what it returned at a later time.
CallEnsureLogData ==
  /\ result.fn = "none"
  /\ \E shape \in DocShapes, stamp \in Stamps, now \in 1..MaxMergeTime :
       \E later \in now..MaxMergeTime :
         LET r == ensureLogDataOf(shape, stamp, left, right, now)
         IN result' = [NoResult EXCEPT !.fn = "ensureLogData", !.shape = shape,
                                       !.raised = r.raised, !.out = r.doc,
                                       !.again = ensureLogData(r.doc, later)]
  /\ UNCHANGED <<householdState, remote, issuesEtag, logState, busy, clock, loads, tasks, left, right>>

\* The members array of the raw household: the elements pushed, or three
\* times as many.
RawMembers(long) == IF long THEN left \o left \o left ELSE left

\* ensureHousehold(x), and ensureHousehold of what it returned at a later time.
CallEnsureHousehold ==
  /\ result.fn = "none"
  /\ \E shape \in DocShapes, stamp \in Stamps, now \in 1..MaxMergeTime, long \in BOOLEAN :
       \E later \in now..MaxMergeTime :
         LET D == ensureHouseholdOf(shape, stamp, RawMembers(long), now)
         IN result' = [NoResult EXCEPT !.fn = "ensureHousehold", !.shape = shape,
                                       !.out = D, !.again = ensureHousehold(D, later)]
  /\ UNCHANGED <<householdState, remote, issuesEtag, logState, busy, clock, loads, tasks, left, right>>

\* mergeHousehold(local, remote) as saveHouseholdToDrive calls it on two
\* normalized documents, and as writeDriveJson calls it on the decoded remote
\* document when that is an object whose members is an array of objects.
CallMergeHouseholds ==
  /\ result.fn = "none"
  /\ \E stamp \in Stamps, now \in 1..MaxMergeTime, long \in BOOLEAN, normalized \in BOOLEAN :
       LET local == ensureHouseholdOf("object", stamp, right, now)
           raw == [lastUpdatedAtISO |-> stamp,
                   members |-> [i \in 1..Len(RawMembers(long)) |->
                                  RawMember(PropsOf(RawMembers(long)[i]))]]
           latest == IF normalized THEN ensureHousehold(raw, now) ELSE raw
       IN /\ normalized \/ \A i \in 1..Len(left) : left[i].kind = "object"
          /\ result' = [NoResult EXCEPT !.fn = "mergeHousehold", !.in = latest,
                                        !.shape = IF normalized THEN "object" ELSE "raw",
                                        !.out = mergeHousehold(local, latest, now)]
  /\ UNCHANGED <<householdState, remote, issuesEtag, logState, busy, clock, loads, tasks, left, right>>

NextNormalize ==
  \/ \E v \in RawElements : PushRawLeft(v)
  \/ \E v \in RawElements : PushRawRight(v)
  \/ CallEnsureLogData
  \/ CallEnsureHousehold
  \/ CallMergeHouseholds

\* The normalizer applied to every decoded document within the bounds.
SpecNormalize == InitMerge /\ [][NextNormalize]_vars

\* ------------------------------------------- the normalizer, linked entries
\* Decoded episode objects: with or without id, owner, timestamps, tombstone.
RawEpisodes ==
  [id : {NoId, 1}, rev : {"raw"}, memberId : {Missing, 2},
   createdAtISO : {Missing, 1}, updatedAtISO : {Missing, 2}, deletedAtISO : {Missing, 1}]

\* Decoded temperature, medication or symptom entries: with or without owner,
\* timestamps and episode; episode 2 is in no document.
RawEntries ==
  [id : {3}, rev : {"raw"}, memberId : {Missing, 3}, episodeId : {NoId, 1, 2},
   createdAtISO : {Missing, 1}, updatedAtISO : {Missing, 2}, deletedAtISO : {Missing}]

PushRawEpisode(e) ==
  /\ result.fn = "none" /\ Len(left) < MaxRawEpisodes
  /\ left' = Append(left, e)
  /\ UNCHANGED <<householdState, remote, issuesEtag, logState, busy, clock, loads, tasks, right, result>>

PushRawEntry(e) ==
  /\ result.fn = "none" /\ Len(right) < MaxRawEntries
  /\ right' = Append(right, e)
  /\ UNCHANGED <<householdState, remote, issuesEtag, logState, busy, clock, loads, tasks, left, result>>

\* The decoded log whose episodes are left and whose temps and meds are right.
RawLinkedLog(stamp) ==
  [lastUpdatedAtISO |-> stamp, episodes |-> left, temps |-> right, meds |-> right,
   symptoms |-> <<>>, medCatalog |-> <<>>]

\* ensureLogData(x), and ensureLogData of what it returned at a later time.
CallEnsureLinkedLog ==
  /\ result.fn = "none"
  /\ \E stamp \in Stamps, now \in 2..(MaxMergeTime + 1) :
       LET D == ensureLogData(RawLinkedLog(stamp), now)
       IN result' = [NoResult EXCEPT !.fn = "ensureLogData", !.stamp = stamp, !.now = now,
                                     !.out = D, !.again = ensureLogData(D, now + 1)]
  /\ UNCHANGED <<householdState, remote, issuesEtag, logState, busy, clock, loads, tasks, left, right>>

\* ensureHousehold(x) of the decoded household whose members have the ids and
\* timestamps of left.
CallEnsureLinkedHousehold ==
  /\ result.fn = "none"
  /\ \E stamp \in Stamps, now \in 2..(MaxMergeTime + 1) :
       LET raw == [lastUpdatedAtISO |-> stamp,
                   members |-> [i \in 1..Len(left) |-> RawMember(left[i])]]
           D == ensureHousehold(raw, now)
       IN result' = [NoResult EXCEPT !.fn = "ensureHousehold", !.stamp = stamp, !.now = now,
                                     !.out = D, !.again = ensureHousehold(D, now + 1)]
  /\ UNCHANGED <<householdState, remote, issuesEtag, logState, busy, clock, loads, tasks, left, right>>

NextLinks ==
  \/ \E e \in RawEpisodes : PushRawEpisode(e)
  \/ \E e \in RawEntries : PushRawEntry(e)
  \/ CallEnsureLinkedLog
  \/ CallEnsureLinkedHousehold

\* The normalizer applied to every log of episodes and entries within the bounds.
SpecLinks == InitMerge /\ [][NextLinks]_vars

\* ------------------------------------------------------------ the catalog
\* The items of a catalog the application wrote: the i-th has id i and a
\* trimmed name, with or without capital letters.
CatalogItems(i) ==
  [id : {i}, rev : {"X"}, name : {LowerName(k) + c : k \in 1..MaxDrugs, c \in {0, 2}},
   isFavorite : BOOLEAN, createdAtISO : {1}, updatedAtISO : {1}]

PushCatalogItem(item) ==
  /\ result.fn = "none" /\ Len(left) < MaxCatalog
  /\ left' = Append(left, item)
  /\ UNCHANGED <<householdState, remote, issuesEtag, logState, busy, clock, loads, tasks, right, result>>

\* Whatever can be typed: nothing, blanks, a name in any case, with or without
\* surrounding blanks.
AllNames == {EmptyName, BlankName} \cup {LowerName(k) + c : k \in 1..MaxDrugs, c \in 0..3}

\* upsertCatalogItem(name) in a render whose catalog is left; out is the
\* catalog of the document its updater returns, if it starts a commit.
CallUpsertCatalogItem ==
  /\ result.fn = "none"
  /\ \E name \in AllNames, now \in 1..MaxMergeTime :
       LET r == upsertCatalogItem(left, name, Len(left) + 1, "X", now)
           current == [emptyLog(now) EXCEPT !.medCatalog = left]
       IN result' = [NoResult EXCEPT
            !.fn = "upsertCatalogItem", !.name = name, !.returns = r.returns,
            !.item = IF r.returns = "null" THEN <<>> ELSE <<r.item>>,
            !.commits = r.commits,
            !.out = IF r.commits
                    THEN UpsertUpdater(Len(left) + 1, "X", now, name, current).medCatalog
                    ELSE left]
  /\ UNCHANGED <<householdState, remote, issuesEtag, logState, busy, clock, loads, tasks, left, right>>

NextCatalog ==
  \/ \E item \in CatalogItems(Len(left) + 1) : PushCatalogItem(item)
  \/ CallUpsertCatalogItem

\* upsertCatalogItem applied to every catalog and name within the bounds.
SpecCatalog == InitMerge /\ [][NextCatalog]_vars

\* ------------------------------------------------- the merge functions
\* mergeById before tombstones were introduced (src/lib/models.ts).
PickWinnerLegacy(item, existing) ==
  IF Geq(updatedAtValue(item.updatedAtISO), updatedAtValue(existing.updatedAtISO))
  THEN item ELSE existing

RECURSIVE MergeAllLegacy(_, _)
MergeAllLegacy(map, items) ==
  IF items = <<>> THEN map
  ELSE LET item == Head(items)
       IN IF ~MapHas(map, item.id)
          THEN MergeAllLegacy(Append(map, item), Tail(items))
          ELSE MergeAllLegacy(MapSet(map, PickWinnerLegacy(item, MapGet(map, item.id))),
                              Tail(items))

mergeByIdLegacy(l, r) == MergeAllLegacy(SetAll(<<>>, r), l)

\* The entities a collection under test is built from: T extends { id: string;
\* updatedAtISO?: string | null; deletedAtISO?: string | null }.
Entities(side) ==
  [id : 1..MaxMergeId, rev : {side}, createdAtISO : {1},
   updatedAtISO : {BadStr} \cup 1..MaxMergeTime,
   deletedAtISO : {Missing} \cup 1..MaxMergeTime]

PushLeft(e) ==
  /\ result.fn = "none" /\ Len(left) < MaxLeft
  /\ left' = Append(left, e)
  /\ UNCHANGED <<householdState, remote, issuesEtag, logState, busy, clock, loads, tasks, right, result>>

PushRight(e) ==
  /\ result.fn = "none" /\ Len(right) < MaxRight
  /\ right' = Append(right, e)
  /\ UNCHANGED <<householdState, remote, issuesEtag, logState, busy, clock, loads, tasks, left, result>>

\* mergeById(left, right), and mergeById(right, left) on the same collections
CallMergeById ==
  /\ result.fn = "none"
  /\ result' = [NoResult EXCEPT !.fn = "mergeById", !.out = mergeById(left, right),
                                !.old = mergeByIdLegacy(left, right),
                                !.swap = mergeById(right, left)]
  /\ UNCHANGED <<householdState, remote, issuesEtag, logState, busy, clock, loads, tasks, left, right>>

\* A decoded log file whose temps and meds arrays are the two collections.
RawLog(stamp) ==
  [lastUpdatedAtISO |-> stamp, episodes |-> <<>>, temps |-> left, meds |-> right,
   symptoms |-> <<>>, medCatalog |-> <<>>]

\* mergeLogData(D, D) on D = ensureLogData(raw)
CallMergeLogData ==
  /\ result.fn = "none"
  /\ \E stamp \in {Missing} \cup 1..MaxMergeTime, now \in 1..MaxMergeTime :
       LET D == ensureLogData(RawLog(stamp), now)
       IN result' = [NoResult EXCEPT !.fn = "mergeLogData", !.in = D,
                                     !.out = mergeLogData(D, D, now)]
  /\ UNCHANGED <<householdState, remote, issuesEtag, logState, busy, clock, loads, tasks, left, right>>

\* A decoded household file: its members array holds one object per entity of
\* left, with the id `member-${id}` and without name and accent colour.
RawHousehold(stamp) ==
  [lastUpdatedAtISO |-> stamp, members |-> [i \in 1..Len(left) |-> RawMember(left[i])]]

\* mergeHousehold(D, D) on D = ensureHousehold(raw)
CallMergeHousehold ==
  /\ result.fn = "none"
  /\ \E stamp \in {Missing} \cup 1..MaxMergeTime, now \in 1..MaxMergeTime :
       LET D == ensureHousehold(RawHousehold(stamp), now)
       IN result' = [NoResult EXCEPT !.fn = "mergeHousehold", !.in = D,
                                     !.out = mergeHousehold(D, D, now)]
  /\ UNCHANGED <<householdState, remote, issuesEtag, logState, busy, clock, loads, tasks, left, right>>

NextMerge ==
  \/ \E e \in Entities("L") : PushLeft(e)
  \/ \E e \in Entities("R") : PushRight(e)
  \/ CallMergeById
  \/ CallMergeLogData
  \/ CallMergeHousehold

\* The merge functions applied to every pair of collections within the bounds.
SpecMerge == InitMerge /\ [][NextMerge]_vars

\* ----------------------------------------------------- mergeById, one id
\* The versions of an entity with every kind of updatedAtISO: undefined, '',
\* a string Date cannot parse, the epoch, later times.
WideEntities(side) ==
  [id : 1..MaxMergeId, rev : {side}, createdAtISO : {1},
   updatedAtISO : {Missing, EmptyStr, BadStr} \cup 0..MaxMergeTime,
   deletedAtISO : {Missing, 1}]

PushWideLeft(e) ==
  /\ result.fn = "none" /\ Len(left) < MaxWide
  /\ left' = Append(left, e)
  /\ UNCHANGED <<householdState, remote, issuesEtag, logState, busy, clock, loads, tasks, right, result>>

PushWideRight(e) ==
  /\ result.fn = "none" /\ Len(right) < MaxWide
  /\ right' = Append(right, e)
  /\ UNCHANGED <<householdState, remote, issuesEtag, logState, busy, clock, loads, tasks, left, result>>

NextCompare ==
  \/ \E e \in WideEntities("L") : PushWideLeft(e)
  \/ \E e \in WideEntities("R") : PushWideRight(e)
  \/ CallMergeById

\* mergeById applied to collections of at most MaxWide versions each.
SpecCompare == InitMerge /\ [][NextCompare]_vars

\* ------------------------------------------------- buildCourseSchedule
MINUTE_MS == 60000
HOUR_MS == 60 * MINUTE_MS
DAY_MS == 24 * HOUR_MS

\* A finite number is named by its tenths: 25 is 2.5. Math.round rounds to the
\* nearest integer, halves towards +Infinity.
MathRound(tenths) == (tenths + 5) \div 10
MathMax(a, b) == IF a >= b THEN a ELSE b
MathMin(a, b) == IF a <= b THEN a ELSE b

\* new Date(ts).toISOString(): a string is named by the instant it denotes.
ToISOString(ts) == ts

\* for (let ts = startTs; ts < endTs; ts += stepMs) output.push(...), with the
\* end included.
RECURSIVE MutCourseLoopInclusive(_, _, _)
MutCourseLoopInclusive(ts, endTs, stepMs) ==
  IF ts <= endTs
    THEN <<ToISOString(ts)>> \o MutCourseLoopInclusive(ts + stepMs, endTs, stepMs)
    ELSE <<>>

\* for (let ts = startTs; ts < endTs; ts += stepMs) output.push(...)
RECURSIVE CourseLoop(_, _, _)
CourseLoop(ts, endTs, stepMs) ==
  IF ts < endTs
    THEN <<ToISOString(ts)>> \o CourseLoop(ts + stepMs, endTs, stepMs)
    ELSE <<>>

buildCourseSchedule(course) ==
  LET startTs == GetTime(course.startAtISO)
      stepMs == MathMax(1, MathRound(course.intervalHours)) * HOUR_MS
      endTs == startTs + MathMax(1, MathRound(course.durationDays)) * DAY_MS
  IN IF startTs = NaN THEN <<>> ELSE CourseLoop(startTs, endTs, stepMs)

\* The courses: a start that is unparsable, the epoch, a millisecond after it,
\* half an hour after it; interval and duration from -1.0 upwards in tenths.
Courses ==
  [startAtISO : {BadStr, 0, 1, 30 * MINUTE_MS},
   intervalHours : (0 - 10)..MaxIntervalTenths,
   durationDays : (0 - 10)..MaxDurationTenths]

SetCourse(course) ==
  /\ result.fn = "none" /\ left = <<>>
  /\ left' = <<course>>
  /\ UNCHANGED <<householdState, remote, issuesEtag, logState, busy, clock, loads, tasks, right, result>>

CallBuildCourseSchedule ==
  /\ result.fn = "none" /\ left # <<>>
  /\ result' = [NoResult EXCEPT !.fn = "buildCourseSchedule", !.in = left[1],
                                !.out = buildCourseSchedule(left[1])]
  /\ UNCHANGED <<householdState, remote, issuesEtag, logState, busy, clock, loads, tasks, left, right>>

NextSchedule ==
  \/ \E course \in Courses : SetCourse(course)
  \/ CallBuildCourseSchedule

\* buildCourseSchedule applied to every course within the bounds.
SpecSchedule == InitMerge /\ [][NextSchedule]_vars

\* ------------------------------------------------------ episode severity
\* What value.severity of a decoded episode can be: absent, null, a string, a
\* number that is not finite, or a finite number, named by its tenths.
RawSeverities ==
  {[kind |-> k, tenths |-> 0] :
     k \in {"undefined", "null", "string", "NaN", "Infinity", "-Infinity"}}
    \cup {[kind |-> "number", tenths |-> n] : n \in (0 - 10)..MaxSeverityTenths}

\* asNumber with the fallback never used.
MutAsNumberNoFallback(value, fallback) == value.tenths

\* typeof value === 'number' && Number.isFinite(value) ? value : fallback
asNumber(value, fallback) == IF value.kind = "number" THEN value.tenths ELSE fallback

\* severity: Math.min(5, Math.max(1, Math.round(asNumber(value.severity, 3))))
normalizeSeverity(value) ==
  MathMin(5, MathMax(1, MathRound(asNumber(value.severity, 3 * 10))))

PushRawSeverity(v) ==
  /\ result.fn = "none" /\ Len(left) < MaxRawSeverities
  /\ left' = Append(left, [severity |-> v])
  /\ UNCHANGED <<householdState, remote, issuesEtag, logState, busy, clock, loads, tasks, right, result>>

\* asArray(value.episodes).map((item) => normalizeEpisode(item, now)), the
\* severity of each episode.
CallNormalizeEpisodes ==
  /\ result.fn = "none"
  /\ result' = [NoResult EXCEPT !.fn = "normalizeEpisode", !.in = left,
                                !.out = [i \in 1..Len(left) |->
                                           [severity |-> normalizeSeverity(left[i])]]]
  /\ UNCHANGED <<householdState, remote, issuesEtag, logState, busy, clock, loads, tasks, left, right>>

NextSeverity ==
  \/ \E v \in RawSeverities : PushRawSeverity(v)
  \/ CallNormalizeEpisodes

\* The episodes of every decoded document within the bounds, normalized.
SpecSeverity == InitMerge /\ [][NextSeverity]_vars

\* ------------------------------------------------------------------ claims
Calls2(t) == tasks[t].pc # "idle"
OtherTab(t, u) == tasks[t].sess # tasks[u].sess

\* C1: no successful write of the Log document removes an entity: in every
\* step the id set of each collection of the remote document only grows.
C1_RemoteIdsOnlyGrow ==
  [][\A c \in CollNames : IdsOf(remote.data[c]) \subseteq IdsOf(remote'.data[c])]_vars

\* A commit was written over a remote version newer than its caller's token,
\* and the entry the other session had added is still there.
C1_Witness ==
  \E t \in TaskIds, u \in TaskIds :
    /\ tasks[t].pc = "done" /\ tasks[u].pc \in {"write1ok", "write2ok", "done"}
    /\ OtherTab(t, u)
    /\ tasks[t].op = "add" /\ tasks[u].op # "add"
    /\ tasks[t].respEtag < remote.etag
    /\ tasks[t].id \in IdsOf(remote.data[tasks[t].coll])

\* C2: X and Y hold the same token; X's commit adding E1 has succeeded when Y
\* commits adding E2: once Y's commit has succeeded it returned merged = true
\* and the remote document holds both E1 and E2.
C2Case(tx, ty) ==
  /\ tasks[tx].pc = "done" /\ tasks[ty].pc = "done"
  /\ OtherTab(tx, ty)
  /\ tasks[tx].op = "add" /\ tasks[ty].op = "add"
  /\ tasks[tx].capt.etag = tasks[ty].capt.etag
  /\ tasks[tx].respEtag <= tasks[ty].seen

C2_SecondCommitMerges ==
  \A tx \in TaskIds, ty \in TaskIds :
    C2Case(tx, ty) =>
      /\ tasks[ty].merged
      /\ tasks[tx].id \in IdsOf(remote.data[tasks[tx].coll])
      /\ tasks[ty].id \in IdsOf(remote.data[tasks[ty].coll])

C2_Witness == \E tx \in TaskIds, ty \in TaskIds : C2Case(tx, ty) /\ tasks[ty].writes = 1

\* C3: a commit adding one entry while the remote document has not changed
\* since the closure's token was obtained: its first write is accepted, it
\* returns merged = false after that one write, and the entries of the
\* document it returns are those the session's document had plus the new one.
C3Unchanged(t) == tasks[t].op = "add" /\ remote.etag = tasks[t].capt.etag

C3_DirectCommit ==
  [][\A t \in TaskIds :
       /\ (C3Unchanged(t) /\ tasks[t].pc = "write1" /\ tasks'[t].pc \notin {"write1", "failed"})
            => tasks'[t].pc = "write1ok"
       /\ (C3Unchanged(t) /\ tasks[t].pc = "write1" /\ tasks'[t].pc = "write1ok")
            => \A c \in CollNames :
                 IdsOf(remote'.data[c]) =
                   IdsOf(tasks[t].capt.data[c])
                     \cup (IF c = tasks[t].coll THEN {tasks[t].id} ELSE {})
       /\ (tasks[t].pc = "write1ok" /\ tasks'[t].pc = "done" /\ tasks[t].op = "add"
             /\ tasks[t].latestEtag = tasks[t].capt.etag)
            => /\ ~tasks'[t].merged
               /\ tasks'[t].writes = 1
               /\ logState'[tasks[t].sess].data = tasks[t].body]_vars

\* C4: when a request of a commit raises, the session's logState (document
\* and token) is what it was before the commit; the only call the session
\* has made is taken, so that no other commit accounts for a difference.
OnlyCallOf(t) == \A u \in TaskIds : (u # t /\ Calls2(u)) => OtherTab(t, u)

C4_FailedCommitKeepsState ==
  [][\A t \in TaskIds :
       (InFlight(t) /\ tasks'[t].pc = "failed" /\ OnlyCallOf(t))
         => logState'[tasks[t].sess] = tasks[t].capt]_vars

C6_EveryWriteConditional ==
  \A t \in TaskIds : tasks[t].pc \in {"write1", "write2"} => tasks[t].ifMatch # NoHeader

\* C7: no two commits of one tab are in flight at the same time.
C7_OneCommitPerTab ==
  \A t \in TaskIds, u \in TaskIds : (t # u /\ InFlight(t) /\ InFlight(u)) => OtherTab(t, u)

\* C8: two sessions race: both have read the same version and issued their
\* first PATCH.  Whichever PATCH the store handles first is applied; the other
\* is answered 412, and its retry writes the merge of its document with the
\* one just applied.  RaceResult is the remote document after both succeeded.
Racing(t, u) ==
  /\ OtherTab(t, u)
  /\ tasks[t].pc = "write1" /\ tasks[u].pc = "write1"
  /\ tasks[t].ifMatch = remote.etag /\ tasks[u].ifMatch = remote.etag

RaceResult(first, second) ==
  mergeLogData(tasks[second].body, tasks[first].body, MaxTime)

SameWinners(d1, d2) == \A c \in CollNames : Range(d1[c]) = Range(d2[c])

\* The ids of which the two racing documents hold different versions with the
\* same updatedAtISO.
TiedIds(t, u) ==
  {id \in 1..MaxIds : \E c \in CollNames :
     /\ MapHas(tasks[t].body[c], id) /\ MapHas(tasks[u].body[c], id)
     /\ MapGet(tasks[t].body[c], id) # MapGet(tasks[u].body[c], id)
     /\ MapGet(tasks[t].body[c], id).updatedAtISO = MapGet(tasks[u].body[c], id).updatedAtISO}

UniqueIds(s) == \A i \in 1..Len(s), j \in 1..Len(s) : s[i].id = s[j].id => i = j

ExactlyOnce(merged) ==
  /\ IdsOf(merged) = IdsOf(left) \cup IdsOf(right)
  /\ UniqueIds(merged)
  /\ \A id \in 1..MaxMergeId :
       CountId(merged, id) = IF id \in IdsOf(left) \cup IdsOf(right) THEN 1 ELSE 0

\* C9: every id of left or of right occurs exactly once in mergeById(left,
\* right), and no other id occurs in it.
C9_MergeTotal ==
  result.fn = "mergeById" => ExactlyOnce(result.out) /\ ExactlyOnce(result.old)

\* An id on both sides, twice on the left, and one on the right only.
C9_Witness ==
  /\ result.fn = "mergeById"
  /\ \E id \in IdsOf(left) \cap IdsOf(right) : CountId(left, id) = 2
  /\ IdsOf(right) \ IdsOf(left) # {}

SameButStamp(D, M) == M = [D EXCEPT !.lastUpdatedAtISO = M.lastUpdatedAtISO]

DocUniqueIds(D) ==
  IF "members" \in DOMAIN D THEN UniqueIds(D.members)
  ELSE \A c \in CollNames : UniqueIds(D[c])

\* The claim: merging a normalized document with itself changes nothing but
\* lastUpdatedAtISO.
C10_MergeIdempotent ==
  result.fn \in {"mergeLogData", "mergeHousehold"} => SameButStamp(result.in, result.out)

\* C10 as amended: merging a normalized document with itself changes nothing
\* but lastUpdatedAtISO when no id occurs twice in one of its collections.
C10_MergeIdempotentUniqueIds ==
  (result.fn \in {"mergeLogData", "mergeHousehold"} /\ DocUniqueIds(result.in))
    => SameButStamp(result.in, result.out)

\* A log with two entries in one collection and one in another, no id twice,
\* merged with itself at a later time than its own stamp.
C10_Witness ==
  /\ result.fn = "mergeLogData"
  /\ DocUniqueIds(result.in)
  /\ Len(result.in.temps) = 2 /\ Len(result.in.meds) = 1
  /\ result.out.lastUpdatedAtISO # result.in.lastUpdatedAtISO

\* The ids of which each side of the merge holds exactly one version.
OnBoth == {id \in 1..MaxMergeId : CountId(left, id) = 1 /\ CountId(right, id) = 1}
\* A timestamp string that Date parses.
Parsable(v) == v >= 0
NotDeleted(e) == DeletedOf(e) = Missing

\* C11: an id on both sides with the same updatedAtISO and deleted on neither:
\* mergeById(L, R) keeps L's version and mergeById(R, L) keeps R's.
C11_LeftWinsTies ==
  result.fn = "mergeById" =>
    \A id \in OnBoth :
      LET l == MapGet(left, id)
          r == MapGet(right, id)
      IN (l.updatedAtISO = r.updatedAtISO /\ NotDeleted(l) /\ NotDeleted(r))
           => MapGet(result.out, id) = l /\ MapGet(result.swap, id) = r

\* The same for timestamps that Date parses.
C11_LeftWinsParsableTies ==
  result.fn = "mergeById" =>
    \A id \in OnBoth :
      LET l == MapGet(left, id)
          r == MapGet(right, id)
      IN (l.updatedAtISO = r.updatedAtISO /\ Parsable(l.updatedAtISO)
            /\ NotDeleted(l) /\ NotDeleted(r))
           => MapGet(result.out, id) = l /\ MapGet(result.swap, id) = r

\* d is a copy of entity a deleted at a time not before a's updatedAtISO and
\* not edited since: its updatedAtISO is a's, or the time of the deletion.
DeletedCopy(d, a) ==
  /\ NotDeleted(a) /\ Parsable(a.updatedAtISO)
  /\ ~NotDeleted(d) /\ Parsable(d.deletedAtISO) /\ d.deletedAtISO >= a.updatedAtISO
  /\ d.updatedAtISO \in {a.updatedAtISO, d.deletedAtISO}

EditedAfterDelete(n, d) ==
  /\ NotDeleted(n) /\ ~NotDeleted(d)
  /\ Parsable(n.updatedAtISO) /\ Parsable(d.deletedAtISO) /\ Parsable(d.updatedAtISO)
  /\ n.updatedAtISO > d.deletedAtISO /\ n.updatedAtISO > d.updatedAtISO

\* C13: a version updated after the other side's deletion survives the merge,
\* whichever side is the left argument.
C13_Resurrection ==
  result.fn = "mergeById" =>
    \A id \in OnBoth :
      LET l == MapGet(left, id)
          r == MapGet(right, id)
      IN /\ EditedAfterDelete(l, r) => MapGet(result.out, id) = l /\ MapGet(result.swap, id) = l
         /\ EditedAfterDelete(r, l) => MapGet(result.out, id) = r /\ MapGet(result.swap, id) = r

\* Merged: a deleted entity on the left, a later edit of it on the right.
C13_Witness ==
  /\ result.fn = "mergeById"
  /\ \E id \in OnBoth :
       /\ EditedAfterDelete(MapGet(right, id), MapGet(left, id))
       /\ MapGet(result.out, id) = MapGet(right, id)

\* The claim, for timestamps that Date parses: two versions of an id with
\* different updatedAtISO: the merge selects the same one in both orders.
C14_CommutativeIfDiffer ==
  result.fn = "mergeById" =>
    \A id \in OnBoth :
      LET l == MapGet(left, id)
          r == MapGet(right, id)
      IN (l.updatedAtISO # r.updatedAtISO /\ Parsable(l.updatedAtISO) /\ Parsable(r.updatedAtISO))
           => MapGet(result.out, id) = MapGet(result.swap, id)

\* Two versions between which the order of the arguments cannot decide: their
\* updatedAtISO parse and differ, and so do their deletedAtISO when both are
\* deleted.
NoTieBetween(l, r) ==
  /\ l.updatedAtISO # r.updatedAtISO /\ Parsable(l.updatedAtISO) /\ Parsable(r.updatedAtISO)
  /\ (~NotDeleted(l) /\ ~NotDeleted(r)) => DeletedOf(l) # DeletedOf(r)

\* C14 as amended: two versions of an id whose updatedAtISO differ and which
\* are not both deleted at the same time: the merge selects the same one in
\* both argument orders.
C14_CommutativeIfNoTie ==
  result.fn = "mergeById" =>
    \A id \in OnBoth :
      NoTieBetween(MapGet(left, id), MapGet(right, id))
        => MapGet(result.out, id) = MapGet(result.swap, id)

\* Merged: two deleted versions of an id, deleted and updated at different
\* times, and the right one was selected.
C14_Witness ==
  /\ result.fn = "mergeById"
  /\ \E id \in OnBoth :
       /\ NoTieBetween(MapGet(left, id), MapGet(right, id))
       /\ ~NotDeleted(MapGet(left, id)) /\ ~NotDeleted(MapGet(right, id))
       /\ MapGet(result.out, id) = MapGet(right, id)

\* C15: ensureLogData and ensureHousehold return a document, and never throw,
\* whatever decoded JSON they are given.
C15_NormalizerTotal ==
  result.fn \in {"ensureLogData", "ensureHousehold"} => ~result.raised

\* C16: normalizing what the normalizer returned, at any later time, returns
\* the same document.
C16_NormalizerIdempotent ==
  (result.fn \in {"ensureLogData", "ensureHousehold"} /\ ~result.raised)
    => result.again = result.out

\* A log without lastUpdatedAtISO and with an entry without id and timestamps
\* was normalized, at a time after which the clock can still advance.
C16_Witness ==
  /\ result.fn = "ensureLogData" /\ result.shape = "object" /\ ~result.raised
  /\ result.out.lastUpdatedAtISO < MaxMergeTime
  /\ \E i \in 1..Len(left) : left[i].kind = "object" /\ left[i].obj.id = NoId
                               /\ left[i].obj.updatedAtISO = Missing
  /\ \E i \in 1..Len(result.out.temps) : result.out.temps[i].id = Uuid(CollIndex("temps"), i)

\* C17: the household ensureHousehold or mergeHousehold returns has exactly
\* MEMBER_SLOTS members, and still has after a further normalization.
C17_HouseholdSlots ==
  /\ result.fn \in {"ensureHousehold", "mergeHousehold"}
       => Len(result.out.members) = MEMBER_SLOTS
  /\ result.fn = "ensureHousehold" => Len(result.again.members) = MEMBER_SLOTS

\* A household was merged with a decoded remote one of more than MEMBER_SLOTS
\* members.
C17_Witness ==
  /\ result.fn = "mergeHousehold" /\ result.shape = "raw"
  /\ Len(result.in.members) > MEMBER_SLOTS
  /\ Len(result.out.members) = MEMBER_SLOTS

\* C18: no commit ends with the error of a 412 answer shown to the user.
C18_ConflictNeverSurfaced ==
  \A t \in TaskIds : tasks[t].message # "Precondition Failed"

\* The letters of a name, whatever their case and the blanks around them.
Letters(name) == name \div 4

\* A name of blanks only, or of nothing.
IsBlank(name) == name \in {EmptyName, BlankName}

\* A name without blanks around it.
IsTrimmed(name) == name % 2 = 0

\* The items of the catalog whose name is the typed one, but for case and
\* surrounding blanks.
SameNamed(catalog, name) ==
  {i \in 1..Len(catalog) : Letters(catalog[i].name) = Letters(name)}

\* C19: upsertCatalogItem returns null and starts no commit for a blank name;
\* returns an item of the catalog, unchanged, and starts no commit when one
\* has the name but for case and surrounding blanks; otherwise its commit adds
\* exactly one item, with the trimmed name and isFavorite false.
C19_UpsertCatalogItem ==
  result.fn = "upsertCatalogItem" =>
    IF IsBlank(result.name)
    THEN result.returns = "null" /\ ~result.commits /\ result.out = left
    ELSE IF SameNamed(left, result.name) # {}
    THEN /\ result.returns = "existing" /\ ~result.commits /\ result.out = left
         /\ \E i \in SameNamed(left, result.name) : result.item = <<left[i]>>
    ELSE /\ result.returns = "created" /\ result.commits
         /\ Len(result.out) = Len(left) + 1
         /\ Range(left) \subseteq Range(result.out)
         /\ \E n \in Range(result.out) \ Range(left) :
              /\ IsTrimmed(n.name) /\ Letters(n.name) = Letters(result.name)
              /\ (result.name - n.name) \in {0, 1}
              /\ n.isFavorite = FALSE
              /\ result.item = <<n>>

\* The name of a catalog item was typed again in capitals between blanks.
C19_Witness ==
  /\ result.fn = "upsertCatalogItem" /\ result.returns = "existing"
  /\ result.name = LowerName(1) + 3
  /\ \E i \in 1..Len(left) : left[i].name = LowerName(1) /\ left[i].isFavorite

\* C20: no two items of a catalog, the remote one or a session's, have the
\* same name but for case.
CatalogNamesUnique(catalog) ==
  \A i \in 1..Len(catalog), j \in 1..Len(catalog) :
    ToLowerCase(catalog[i].name) = ToLowerCase(catalog[j].name) => i = j

C20_CatalogNamesUnique ==
  /\ CatalogNamesUnique(remote.data.medCatalog)
  /\ \A s \in Sessions : CatalogNamesUnique(logState[s].data.medCatalog)

\* The entries of a document that reference the episode.
LinkedTo(doc, episodeId) ==
  {e \in Range(doc.temps) \cup Range(doc.meds) \cup Range(doc.symptoms) :
     e.episodeId = episodeId}

\* The episode is in the document, with a tombstone.
Tombstoned(doc, episodeId) ==
  \E e \in Range(doc.episodes) : e.id = episodeId /\ TruthyStr(e.deletedAtISO)

\* C21: the document a deleteEpisode commit has written holds the episode
\* with its tombstone and no entry that references the episode, also when
\* remote changes were merged into it.
C21_DeleteEpisodeUnlinks ==
  \A t \in TaskIds :
    (tasks[t].op = "deleteEpisode" /\ tasks[t].pc \in {"write1ok", "write2ok"})
      => /\ Tombstoned(tasks[t].body, tasks[t].id)
         /\ LinkedTo(tasks[t].body, tasks[t].id) = {}

\* C22: the If-Match of a commit's first PATCH is the token of the logState
\* the commit was called with.
C22_FirstWriteUsesHeldToken ==
  \A t \in TaskIds : tasks[t].pc = "write1" => tasks[t].ifMatch = tasks[t].capt.etag

\* C23: a commit whose first PATCH was accepted has read nothing from the
\* store, and no commit reads the file more than twice.
C23_ReadsOnlyOnConflict ==
  \A t \in TaskIds :
    /\ tasks[t].pc = "write1ok" => tasks[t].reads = 0
    /\ tasks[t].reads <= 2

\* The store numbers the versions of the file: the etag of a version is the
\* number of writes the store has applied, plus one.  These are the writes
\* applied after the token of the commit's logState was issued and before the
\* commit's own write.
WritesSinceToken(t) == (tasks[t].respEtag - 1) - tasks[t].capt.etag

\* C25: a commit returns merged = true exactly when some write was applied to
\* the file after the token of the logState it was called with was issued.
C25_MergedIffRemoteChanged ==
  \A t \in TaskIds :
    tasks[t].pc = "done" => (tasks[t].merged <=> WritesSinceToken(t) > 0)

\* Two commits have returned: one without merge, and one whose first PATCH
\* was answered 412 because the other was applied after its read.
C25_Witness ==
  \E t \in TaskIds, u \in TaskIds :
    /\ tasks[t].pc = "done" /\ ~tasks[t].merged /\ tasks[t].writes = 1
    /\ tasks[u].pc = "done" /\ tasks[u].merged /\ tasks[u].writes = 2
    /\ WritesSinceToken(u) = 1

\* C24: no commit raises on the content of the remote file, whatever that
\* content is: what a commit merges was normalized first, on the retry path
\* as well.
C24_MalformedNeverRaises ==
  \A t \in TaskIds : tasks[t].message # "TypeError"

\* C26: between two versions of an id, neither deleted, mergeById treats a
\* missing or unparsable updatedAtISO as the epoch: a left version with an
\* unparsable updatedAtISO is kept against a right one whose updatedAtISO is
\* missing or the epoch, and the right one is kept when its updatedAtISO is a
\* later valid time.
C26_UnparsableIsEpoch ==
  result.fn = "mergeById" =>
    \A id \in OnBoth :
      LET l == MapGet(left, id)
          r == MapGet(right, id)
      IN (NotDeleted(l) /\ NotDeleted(r) /\ l.updatedAtISO = BadStr)
           => /\ r.updatedAtISO \in {Missing, 0} => MapGet(result.out, id) = l
              /\ r.updatedAtISO >= 1 => MapGet(result.out, id) = r

\* The same of a left version whose updatedAtISO is missing or empty.
C26_MissingIsEpoch ==
  result.fn = "mergeById" =>
    \A id \in OnBoth :
      LET l == MapGet(left, id)
          r == MapGet(right, id)
      IN (NotDeleted(l) /\ NotDeleted(r) /\ l.updatedAtISO \in {Missing, EmptyStr})
           => /\ r.updatedAtISO \in {Missing, EmptyStr, 0} => MapGet(result.out, id) = l
              /\ r.updatedAtISO >= 1 => MapGet(result.out, id) = r

\* C27: the document of a session has a medCourses collection, and a
\* createMedCourse call that no failed request has ended has committed: the
\* session's document holds the course.
C27_MedCoursesTakePart ==
  /\ \A s \in Sessions : logState[s].loaded => "medCourses" \in DOMAIN logState[s].data
  /\ \A t \in TaskIds :
       (tasks[t].op = "createMedCourse" /\ Finished(t) /\ tasks[t].message # "Offline")
         => /\ tasks[t].pc = "done"
            /\ tasks[t].id \in IdsOf(asArray(logState[tasks[t].sess].data, "medCourses"))

\* The normalized episodes that have the id.
EpisodesWithId(doc, id) == {e \in Range(doc.episodes) : e.id = id}

\* The entry collections of the normalized log, each the image of right.
EntryColls == {"temps", "meds"}

\* C28: a normalized entry keeps the memberId it had; one that had none gets
\* the memberId of the episode of the document its episodeId names, and
\* 'member-1' when it has no episodeId or the document has no such episode.
C28_MemberBackfill ==
  result.fn = "ensureLogData" =>
    \A c \in EntryColls : \A i \in 1..Len(right) :
      LET raw == right[i]
          n == result.out[c][i]
          named == EpisodesWithId(result.out, raw.episodeId)
      IN /\ raw.memberId # Missing => n.memberId = raw.memberId
         /\ (raw.memberId = Missing /\ raw.episodeId # NoId /\ named # {})
              => \E e \in named : n.memberId = e.memberId
         /\ (raw.memberId = Missing /\ (raw.episodeId = NoId \/ named = {}))
              => n.memberId = MEMBER_1

\* An entry without memberId, recorded in an episode of member 2, was
\* normalized.
C28_Witness ==
  /\ result.fn = "ensureLogData"
  /\ \E i \in 1..Len(right) :
       /\ right[i].memberId = Missing /\ right[i].episodeId = 1
       /\ \E e \in Range(result.out.episodes) : e.id = 1 /\ e.memberId = 2
       /\ result.out.temps[i].memberId = 2

\* The timestamp of the document: its lastUpdatedAtISO, or the current time
\* when it has none (or an empty one).
DocStamp == IF result.stamp \notin {Missing, EmptyStr} THEN result.stamp ELSE result.now

\* What the claim gives a normalized entity whose decoded form is raw.
StampsBackfilled(raw, n) ==
  /\ n.createdAtISO = (IF raw.createdAtISO # Missing THEN raw.createdAtISO
                       ELSE IF raw.updatedAtISO # Missing THEN raw.updatedAtISO
                       ELSE DocStamp)
  /\ n.updatedAtISO = (IF raw.updatedAtISO # Missing THEN raw.updatedAtISO
                       ELSE IF raw.createdAtISO # Missing THEN raw.createdAtISO
                       ELSE DocStamp)

C30_EpisodeIdKept ==
  result.fn = "ensureLogData" =>
    /\ \A c \in EntryColls : \A i \in 1..Len(right) :
         right[i].episodeId # NoId
           => /\ result.out[c][i].episodeId = right[i].episodeId
              /\ result.again[c][i].episodeId = right[i].episodeId
    /\ Len(result.out.episodes) = Len(left) /\ Len(result.again.episodes) = Len(left)
    /\ \A i \in 1..Len(left) :
         left[i].deletedAtISO # Missing
           => /\ result.out.episodes[i].deletedAtISO = left[i].deletedAtISO
              /\ result.again.episodes[i].deletedAtISO = left[i].deletedAtISO
              /\ left[i].id # NoId => result.again.episodes[i].id = left[i].id

\* A log with a tombstoned episode and an entry recorded in it was normalized.
C30_Witness ==
  /\ result.fn = "ensureLogData"
  /\ \E i \in 1..Len(left), j \in 1..Len(right) :
       /\ left[i].id = 1 /\ left[i].deletedAtISO = 1
       /\ right[j].episodeId = 1
       /\ result.out.temps[j].episodeId = 1
       /\ Tombstoned(result.out, 1)

\* Every tombstone of the document was last updated at or after its deletion.
TombstonesOrdered(doc) ==
  \A c \in CollNames : \A e \in Range(doc[c]) :
    TruthyStr(DeletedOf(e)) => deletedAtValue(DeletedOf(e)) <= updatedAtValue(e.updatedAtISO)

\* C31: while every tombstone, of the remote document and of the documents
\* the commits write, has deletedAtISO <= updatedAtISO, no step replaces the
\* version of an id the remote document holds by one with a strictly smaller
\* updatedAtISO.
C31_RemoteVersionsNeverOlder ==
  [][(TombstonesOrdered(remote.data) /\ \A t \in TaskIds : TombstonesOrdered(tasks[t].body))
       => \A c \in CollNames : \A id \in IdsOf(remote.data[c]) \cap IdsOf(remote'.data[c]) :
            updatedAtValue(MapGet(remote'.data[c], id).updatedAtISO)
              >= updatedAtValue(MapGet(remote.data[c], id).updatedAtISO)]_vars

\* Commit tb was called after commit ta had been written, with a household
\* loaded before that, and renamed another member than ta did.
RenamedAfter(ta, tb) ==
  /\ tasks[ta].op = "saveMembers" /\ tasks[tb].op = "saveMembers"
  /\ OtherTab(ta, tb)
  /\ tasks[ta].pc = "done" /\ tasks[tb].pc = "done"
  /\ tasks[ta].id # tasks[tb].id
  /\ tasks[tb].capt.etag < tasks[ta].respEtag
  /\ tasks[tb].seen >= tasks[ta].respEtag

\* C32: session A has renamed member i; session B, whose household was loaded
\* before that, then renames member j only: the remote household B's commit
\* wrote still holds A's name of member i (and B's name of member j).
C32_OtherMemberKept ==
  \A ta \in TaskIds, tb \in TaskIds :
    (RenamedAfter(ta, tb) /\ remote.etag = tasks[tb].respEtag)
      => /\ remote.data.members[tasks[ta].id].name = tasks[ta].name
         /\ remote.data.members[tasks[tb].id].name = tasks[tb].name

\* Commits t and u of one tab overlapped and are the only calls made: u was
\* called before the write of t was applied, and t before u.
Overlapped(t, u) ==
  /\ t < u /\ ~OtherTab(t, u)
  /\ Calls2(t) /\ Calls2(u)
  /\ tasks[u].seen < tasks[t].respEtag
  /\ \A w \in TaskIds \ {t, u} : ~Calls2(w)

\* C33: two overlapping commits of one tab have both returned: the tab's
\* logState holds the token and the collections of the remote document, and
\* the entities both commits added.
C33_OverlapConverges ==
  \A t \in TaskIds, u \in TaskIds :
    (Overlapped(t, u) /\ tasks[t].pc = "done" /\ tasks[u].pc = "done")
      => LET local == logState[tasks[t].sess]
         IN /\ local.etag = remote.etag
            /\ \A c \in CollNames : local.data[c] = remote.data[c]
            /\ tasks[t].id \in IdsOf(local.data[tasks[t].coll])
            /\ tasks[u].id \in IdsOf(local.data[tasks[u].coll])

\* handleMedSubmit's two commits: t0 is the upsertCatalogItem commit, which
\* succeeded, and t the addMedEntry commit made after it in the same closure.
MedSubmitted(t0, t) ==
  /\ ~OtherTab(t0, t)
  /\ tasks[t0].op = "upsert" /\ tasks[t0].pc = "done" /\ tasks[t0].chained
  /\ tasks[t].op = "add" /\ tasks[t].coll = "meds"

\* The document holds the catalog item of t0 and the med entry of t.
HoldsBoth(doc, t0, t) ==
  /\ tasks[t0].id \in IdsOf(doc.medCatalog)
  /\ tasks[t].id \in IdsOf(doc.meds)

\* C34: when the addMedEntry commit of handleMedSubmit returns, after its
\* upsertCatalogItem commit succeeded, the remote document and the tab's
\* logState both hold the new catalog item and the new med entry, although
\* addMedEntry started from the state and token of before the first commit.
C34_MedSubmitKeepsBoth ==
  [][\A t0 \in TaskIds, t \in TaskIds :
       (MedSubmitted(t0, t) /\ tasks[t].pc \in {"write1ok", "write2ok"}
          /\ tasks'[t].pc = "done")
         => /\ HoldsBoth(remote'.data, t0, t)
            /\ HoldsBoth(logState'[tasks[t].sess].data, t0, t)
            /\ logState'[tasks[t].sess].etag = tasks[t].respEtag]_vars

\* Both commits of a handleMedSubmit have returned, the second one called with
\* the token of before the first, and the tab holds item and entry.
C34_Witness ==
  \E t0 \in TaskIds, t \in TaskIds :
    /\ MedSubmitted(t0, t) /\ tasks[t].pc = "done"
    /\ tasks[t].capt.etag < tasks[t0].respEtag
    /\ tasks[t].merged
    /\ HoldsBoth(remote.data, t0, t)
    /\ HoldsBoth(logState[tasks[t].sess].data, t0, t)

\* C35: a commit of a tab that added an entity has failed; in the step in
\* which a later commit of the same tab is written, the remote document holds
\* the entity of the failed commit.
C35_FailedEditNotLost ==
  [][\A t \in TaskIds, u \in TaskIds :
       (/\ t < u /\ ~OtherTab(t, u)
        /\ tasks[t].pc = "failed" /\ tasks[t].op \in {"add", "upsert"}
        /\ tasks[u].pc \in {"write1", "write2"}
        /\ tasks'[u].pc \in {"write1ok", "write2ok"})
         => tasks[t].id \in IdsOf(remote'.data[tasks[t].coll])]_vars

\* Commit u was called with the logState the successful commit t left, and no
\* other session has written since t's write: every version from t's to the
\* one before u's was written by a commit of the same tab.
NextFromStateOf(t, u) ==
  /\ t # u /\ ~OtherTab(t, u)
  /\ tasks[t].pc = "done" /\ tasks[u].pc = "done"
  /\ tasks[u].capt.etag = tasks[t].respEtag
  /\ \A e \in (tasks[t].respEtag + 1)..(tasks[u].respEtag - 1) :
       \E w \in TaskIds : ~OtherTab(w, u) /\ tasks[w].respEtag = e

\* C36: when a commit returns, the tab's logState holds the token of the
\* version the commit wrote and the document it wrote; and a commit called
\* with that logState, no other session having written in between, has
\* returned merged = false.
C36_TokenContinuity ==
  [][\A t \in TaskIds :
       /\ (tasks[t].pc \in {"write1ok", "write2ok"} /\ tasks'[t].pc = "done")
            => /\ logState'[tasks[t].sess].etag = tasks[t].respEtag
               /\ logState'[tasks[t].sess].data = tasks[t].body
       /\ \A u \in TaskIds : NextFromStateOf(t, u)' => ~tasks'[u].merged]_vars

\* The commits of the session that are in flight.
InFlightOf(s) == {t \in TaskIds : InFlight(t) /\ tasks[t].sess = s}

\* The flag at the two ends of a commit: set by the step that starts it, clear
\* after the step that ends it.
BusyAtEnds(t) ==
  /\ (InFlight(t) /\ Finished(t)') => ~busy'[tasks[t].sess]
  /\ (~InFlight(t) /\ InFlight(t)') => busy'[tasks'[t].sess]

\* A step during which t is the only commit of its tab in flight leaves the
\* flag set.
BusyHeld(t) ==
  (/\ InFlightOf(tasks[t].sess) = {t} /\ InFlightOf(tasks[t].sess)' = {t}
   /\ busy[tasks[t].sess])
    => busy'[tasks[t].sess]

\* Every commit ends, having made at most two reads and two writes.
EndsWithinTwo ==
  /\ \A t \in TaskIds : InFlight(t) ~> Finished(t)
  /\ [](\A t \in TaskIds : tasks[t].reads <= 2 /\ tasks[t].writes <= 2)

C38_CourseSchedule ==
  result.fn = "buildCourseSchedule" =>
    LET course == result.in
        out == result.out
        I == MathMax(1, MathRound(course.intervalHours))
        D == MathMax(1, MathRound(course.durationDays))
    IN IF course.startAtISO = BadStr
         THEN out = <<>>
         ELSE /\ Len(out) = (24 * D + I - 1) \div I
              /\ GetTime(out[1]) = GetTime(course.startAtISO)
              /\ \A i \in 1..(Len(out) - 1) :
                   GetTime(out[i + 1]) - GetTime(out[i]) = I * 60 * 60 * 1000
              /\ \A i \in 1..Len(out) :
                   GetTime(out[i]) < GetTime(course.startAtISO) + D * 24 * 60 * 60 * 1000

\* Every 2.5 hours (rounded to 3) for 1.4 days (rounded to 1) from half past
\* midnight: eight doses, the last at 21:30.
C38_Witness ==
  /\ result.fn = "buildCourseSchedule"
  /\ result.in.startAtISO = 30 * MINUTE_MS
  /\ result.in.intervalHours = 25 /\ result.in.durationDays = 14
  /\ Len(result.out) = 8
  /\ result.out[8] = 30 * MINUTE_MS + 21 * HOUR_MS

\* C39: every episode of a normalized Log document has an integer severity
\* from 1 to 5: the input rounded to the nearest integer (halves upwards) and
\* clamped to [1, 5], and 3 when the input is absent or no finite number.
C39_SeverityInRange ==
  result.fn = "normalizeEpisode" =>
    \A i \in 1..Len(result.out) :
      LET raw == result.in[i].severity
          severity == result.out[i].severity
      IN /\ severity \in 1..5
         /\ raw.kind # "number" => severity = 3
         /\ raw.kind = "number" =>
              /\ raw.tenths < 15 => severity = 1
              /\ raw.tenths >= 45 => severity = 5
              /\ (raw.tenths >= 15 /\ raw.tenths < 45) =>
                   /\ 10 * severity - 5 <= raw.tenths
                   /\ raw.tenths < 10 * severity + 5

\* A document with an episode of severity 2.5, normalized to 3, and one of
\* severity 6, normalized to 5.
C39_Witness ==
  /\ result.fn = "normalizeEpisode"
  /\ Len(result.out) = 2
  /\ result.in[1].severity = [kind |-> "number", tenths |-> 25]
  /\ result.out[1].severity = 3
  /\ result.in[2].severity = [kind |-> "number", tenths |-> 60]
  /\ result.out[2].severity = 5

====
